---- MODULE Spec2Model ----
(***************************************************************************)
(* A model of prime.py: the PRIME surrogate model (PRIMETransformerModel), *)
(* the feasibility-stratified dataset (PRIMEDataset), the batch sampling   *)
(* policies (HardwareOptProblem) and the outer training loop               *)
(* (train_eval_offline).                                                   *)
(*                                                                         *)
(* Probabilities are exact fractions [num, den]; 0 / 0 is NaN as in IEEE   *)
(* arithmetic. Python indices are kept 0-based. Three specifications share *)
(* the variables: SpecData (a problem and its sampling methods), SpecModel *)
(* (a model and the calls made on it) and Spec (train_eval_offline).       *)
(***************************************************************************)
EXTENDS Integers, Sequences, FiniteSets, TLC

VARIABLES
  \* ---- dataset and sampling policies (SpecData) ----
  config,        \* the field configuration handed to HardwareOptProblem
  data_file,     \* the raw records handed to HardwareOptProblem
  params_dict,   \* the params_dict handed to HardwareOptProblem
  problem,       \* the HardwareOptProblem object (NoProblem before construction)
  d_pc,          \* "init" | "ready" | "error"
  d_out          \* outcome of the last call: a batch, or an exception

data_vars == <<config, data_file, params_dict, problem, d_pc, d_out>>

VARIABLES
  \* ---- one model and the calls made on it (SpecModel) ----
  model,         \* the PRIMETransformerModel object: hyper-parameters, weights
                 \* and the optimizer's iteration counter
  m_batch,       \* the batch the caller holds and passes to every call
  m_out,         \* the last call and its outcome
  m_prev         \* the outcome of the call before it, when both that call
                 \* and the last one were infer_negatives

model_vars == <<model, m_batch, m_out, m_prev>>

VARIABLES
  \* ---- train_eval_offline (Spec); its model is the variable model ----
  args,          \* the arguments of the call
  pc,            \* position in train_eval_offline
  step,          \* the loop variable
  train_problem, \* HardwareOptProblem on the training data
  val_problem,   \* HardwareOptProblem on the validation data
  save_dir,      \* None, or the directory summaries and models go to
  train_batch,   \* batch, the training batch of the current step
  loss_dict,     \* what perform_training returned in the current step
  summary,       \* the (prefix, key, step) triples scalars were written for
  saved,         \* what was saved: the model, and the checkpoint steps
  raised         \* the exception that ended the call, if one did

loop_vars == <<args, pc, step, train_problem, val_problem, save_dir,
               train_batch, loss_dict, summary, saved, raised>>

VARIABLES
  \* ---- the ranking diagnostics on one batch (SpecRank) ----
  r_input,       \* the input column of the batch
  r_target,      \* the target column of the batch
  r_context,     \* the context column of the batch, or None
  r_out          \* what kendall_correlation and ranking_loss returned

rank_vars == <<r_input, r_target, r_context, r_out>>

vars == <<data_vars, model_vars, loop_vars, rank_vars>>

----------------------------------------------------------------------------
(* Bounds *)

NumRecords == 3        \* number of records in the data source
BatchSize == 2         \* the batch_size a params_dict carries when it has one
NumTrainRecords == 3   \* number of records of the training data
MaxVotes == 2          \* largest num_votes of a model
MaxInferSteps == 2     \* largest num_gradient_steps of a model
MaxTrainCalls == 1     \* calls of perform_training on one model
MaxTrainSteps == 2     \* largest train_steps of train_eval_offline

----------------------------------------------------------------------------
(* Program constants *)

\* AREA_THRESHOLD = 27.0, a Python float: the exact fraction [num, den]
AREA_THRESHOLD == [num |-> 27, den |-> 1]
DEFAULT_BATCH_SIZE == 256

\* self.opt_lr = 1e-3 and self.infeasible_alpha = 0.01. A learning rate and
\* an infeasible_alpha are exact fractions [num, den] with den > 0; the
\* other loss coefficients are integers.
DEFAULT_OPT_LR == [num |-> 1, den |-> 1000]
DEFAULT_INFEASIBLE_ALPHA == [num |-> 1, den |-> 100]

\* the clipping ranges of compute_loss
NEG_PRED_MIN == 0 - 4000
NEG_PRED_MAX == 4000
CQL_MIN == 0 - 4000
CQL_MAX == 1000000
INFEASIBLE_MIN == 0 - 1000
INFEASIBLE_MAX == 1000000

\* self._active_training_keys; the ten keys param_1..param_10 of the source
\* are represented by the first NumKeys of them.
NumKeys == 2
active_training_keys == [i \in 1..NumKeys |-> i]

----------------------------------------------------------------------------
(* Generic helpers *)

RECURSIVE SumSeq(_)
SumSeq(s) == IF s = <<>> THEN 0 ELSE Head(s) + SumSeq(Tail(s))

RECURSIVE SumFn(_, _)
\* sum of f[0] .. f[n-1] for a 0-based vector f
SumFn(f, n) == IF n = 0 THEN 0 ELSE f[n - 1] + SumFn(f, n - 1)

RECURSIVE ConcatAll(_)
ConcatAll(ss) == IF ss = <<>> THEN <<>> ELSE Head(ss) \o ConcatAll(Tail(ss))

Clip(x, lo, hi) == IF x < lo THEN lo ELSE IF x > hi THEN hi ELSE x

Max(S) == CHOOSE x \in S : \A y \in S : y <= x

\* numpy float division a / b, kept as the exact fraction; b = 0 gives
\* nan (a = 0) or inf (a # 0) as in IEEE arithmetic, with a warning only.
Div(a, b) == [num |-> a, den |-> b]

IsNaN(p) == p.den = 0 /\ p.num = 0
IsFinite(p) == p.den # 0
IsPositive(p) == p.den # 0 /\ p.num * p.den > 0
IsZero(p) == p.den # 0 /\ p.num = 0

\* a raised Python exception, as the outcome of a call
Exc(kind) == [exception |-> kind]
IsExc(r) == "exception" \in DOMAIN r

----------------------------------------------------------------------------
(* PRIMEDataset *)

\* The names a configuration declares.
DeclaredNames(cfg) == {cfg[i].name : i \in DOMAIN cfg}

\* load_or_refresh_config: one entry per declared name (a later line with the
\* same name replaces an earlier one), ctr = 0-based line number, and the
\* segment length of line ctr is the length of its value_range. Looking up
\* an active training key that was not declared is a KeyError.
load_or_refresh_config(cfg) ==
  LET names == DeclaredNames(cfg)
      last(n) == Max({i \in DOMAIN cfg : cfg[i].name = n})
      dsd == [n \in names |->
                [value_range |-> cfg[last(n)].value_range,
                 ctr |-> last(n) - 1]]
      seg == [c \in 0..(Len(cfg) - 1) |-> Len(cfg[c + 1].value_range)]
  IN IF \E k \in DOMAIN active_training_keys :
          active_training_keys[k] \notin names
     THEN Exc("KeyError")
     ELSE [design_space_dict |-> dsd,
           segment_lengths |-> seg,
           split_lengths |-> [k \in DOMAIN active_training_keys |->
                                seg[dsd[active_training_keys[k]].ctr]]]

\* dict(zip(value_range, arange(len(value_range)))): the raw values that have
\* an index, and the index of a raw value (the last position holding it).
MappedValues(value_range) == {value_range[i] : i \in DOMAIN value_range}
\* Variant of design_space_map: the indices start at 1.
design_space_map_one_based(value_range, x) ==
  Max({i \in DOMAIN value_range : value_range[i] = x})

design_space_map(value_range, x) ==
  Max({i \in DOMAIN value_range : value_range[i] = x}) - 1

\* Variant of convert_to_tf_dataset: a raw value without index gets index 0.
convert_to_tf_dataset_default(loaded, data) ==
  LET n == Len(data)
      dsd == loaded.design_space_dict
      unknown == \E i \in 1..n : \E k \in DOMAIN active_training_keys :
                   data[i].param[k] \notin
                     MappedValues(dsd[active_training_keys[k]].value_range)
  IN IF FALSE THEN Exc("KeyError")
     ELSE IF n = 0 THEN Exc("ValueError")
     ELSE [design_space_dict |-> dsd,
           segment_lengths |-> loaded.segment_lengths,
           split_lengths |-> loaded.split_lengths,
           param |-> [k \in DOMAIN active_training_keys |->
                       [i \in 0..(n - 1) |->
                          IF data[i + 1].param[k] \in MappedValues(
                               dsd[active_training_keys[k]].value_range)
                          THEN design_space_map(
                                 dsd[active_training_keys[k]].value_range,
                                 data[i + 1].param[k])
                          ELSE 0]],
           area |-> [i \in 0..(n - 1) |-> data[i + 1].area],
           runtime |-> [i \in 0..(n - 1) |-> data[i + 1].runtime],
           infeasible_np |-> [i \in 0..(n - 1) |-> data[i + 1].infeasible],
           score |-> [i \in 0..(n - 1) |-> 0 - data[i + 1].runtime],
           top |-> n]

\* _convert_to_tf_dataset followed by get_score_function: the columns of the
\* loaded dataset as 0-based vectors; every active field's raw value is
\* replaced by its dense index, and a raw value without index is a KeyError.
\* get_score_function prints scores.max(), which numpy refuses for a source
\* without records (ValueError: zero-size array), so no dataset is built
\* from an empty source.
convert_to_tf_dataset(loaded, data) ==
  LET n == Len(data)
      dsd == loaded.design_space_dict
      unknown == \E i \in 1..n : \E k \in DOMAIN active_training_keys :
                   data[i].param[k] \notin
                     MappedValues(dsd[active_training_keys[k]].value_range)
  IN IF unknown THEN Exc("KeyError")
     ELSE IF n = 0 THEN Exc("ValueError")
     ELSE [design_space_dict |-> dsd,
           segment_lengths |-> loaded.segment_lengths,
           split_lengths |-> loaded.split_lengths,
           param |-> [k \in DOMAIN active_training_keys |->
                       [i \in 0..(n - 1) |->
                          design_space_map(
                            dsd[active_training_keys[k]].value_range,
                            data[i + 1].param[k])]],
           area |-> [i \in 0..(n - 1) |-> data[i + 1].area],
           runtime |-> [i \in 0..(n - 1) |-> data[i + 1].runtime],
           infeasible_np |-> [i \in 0..(n - 1) |-> data[i + 1].infeasible],
           score |-> [i \in 0..(n - 1) |-> 0 - data[i + 1].runtime],
           top |-> n]

\* PRIMEDataset.__init__ / _setup_dataset
PRIMEDataset(cfg, data) ==
  LET loaded == load_or_refresh_config(cfg)
  IN IF IsExc(loaded) THEN loaded ELSE convert_to_tf_dataset(loaded, data)

\* Variant of get_input_splits: the segment lengths in the order of the
\* configuration's lines.
get_input_splits_line_order(ds) ==
  [k \in DOMAIN active_training_keys |-> ds.segment_lengths[k - 1]]

\* get_input_splits: the segment length of each active training key, in
\* training-key order.
get_input_splits(ds) ==
  [k \in DOMAIN active_training_keys |->
     ds.segment_lengths[ds.design_space_dict[active_training_keys[k]].ctr]]

\* The dataset after a call of get_input_splits: the call stores the lengths
\* it returns in self._active_lengths, an attribute __init__ does not set.
after_get_input_splits(ds) ==
  [n \in DOMAIN ds \cup {"_active_lengths"} |->
     IF n = "_active_lengths" THEN get_input_splits(ds) ELSE ds[n]]

\* input_properties: the sum of self._active_lengths, the total length of the
\* input vector; an AttributeError on a dataset whose get_input_splits has
\* not been called.
input_properties(ds) ==
  IF "_active_lengths" \in DOMAIN ds THEN SumSeq(ds._active_lengths)
  ELSE Exc("AttributeError")

\* self._tf_dataset['area'] <= AREA_THRESHOLD, for one element x of the
\* int32 tensor and the float y: the two are compared as numbers, so an
\* area equal to the threshold passes; .numpy().astype(np.float32) then
\* turns True into 1.0 and False into 0.0.
less_equal(x, y) == x * y.den <= y.num

\* Variant of less_equal: the strict comparison.
less(x, y) == x * y.den < y.num

\* Variant of feasible_vector: the area test is strict (area < threshold).
feasible_vector_strict_area(ds, add_area_constraints) ==
  [i \in 0..(ds.top - 1) |->
     LET feasible == 1 - ds.infeasible_np[i]
         feasible_area == IF less(ds.area[i], AREA_THRESHOLD) THEN 1 ELSE 0
     IN IF add_area_constraints
        THEN Clip(feasible + feasible_area - 1, 0, 1)
        ELSE feasible]

\* The 0/1 feasibility vector get_feasible_probs and valid_invalid_data_size
\* compute: 1 - infeasible, and with the area constraint
\* clip(feasible + (area <= AREA_THRESHOLD) - 1, 0, 1).
feasible_vector(ds, add_area_constraints) ==
  [i \in 0..(ds.top - 1) |->
     LET feasible == 1 - ds.infeasible_np[i]
         feasible_area == IF less_equal(ds.area[i], AREA_THRESHOLD)
                          THEN 1 ELSE 0
     IN IF add_area_constraints
        THEN Clip(feasible + feasible_area - 1, 0, 1)
        ELSE feasible]

\* get_feasible_probs: feasible / sum(feasible) and
\* (1 - feasible) / sum(1 - feasible).
get_feasible_probs(ds, add_area_constraints) ==
  LET feasible == feasible_vector(ds, add_area_constraints)
      infeasible == [i \in 0..(ds.top - 1) |-> 1 - feasible[i]]
  IN [probs |-> [i \in 0..(ds.top - 1) |->
                   Div(feasible[i], SumFn(feasible, ds.top))],
      infeasible_probs |-> [i \in 0..(ds.top - 1) |->
                   Div(infeasible[i], SumFn(infeasible, ds.top))]]

\* tf.one_hot(index, depth) as a row of length depth
one_hot(index, depth) == [j \in 1..depth |-> IF j - 1 = index THEN 1 ELSE 0]

\* The row _get_batch builds for record i: the one-hot vectors of the active
\* training keys, concatenated in training-key order.
design_row(ds, i) ==
  ConcatAll([k \in DOMAIN active_training_keys |->
               one_hot(ds.param[k][i],
                       ds.segment_lengths[
                         ds.design_space_dict[active_training_keys[k]].ctr])])

\* _get_batch(indices): indices is a sequence of 0-based record indices.
get_batch(ds, indices) ==
  [x |-> [b \in DOMAIN indices |-> design_row(ds, indices[b])],
   y |-> [b \in DOMAIN indices |-> ds.score[indices[b]]]]


----------------------------------------------------------------------------
(* HardwareOptProblem *)

NoProblem == [constructed |-> FALSE]
NoModel == [constructed |-> FALSE]
\* Python's None
None == [none |-> TRUE]

\* HardwareOptProblem.__init__. The attribute batch_size is always 256;
\* the attribute _batch_size, which the sampling methods read, exists only
\* when params_dict has the key 'batch_size'.
HardwareOptProblem(cfg, data, pd) ==
  LET batch_type == IF "batch_type" \in DOMAIN pd
                    THEN pd.batch_type ELSE "valid"
      add_area == IF "add_area_constraints" \in DOMAIN pd
                  THEN pd.add_area_constraints ELSE FALSE
      ds == PRIMEDataset(cfg, data)
      fp == get_feasible_probs(ds, add_area)
      obj == [constructed |-> TRUE,
              batch_size |-> DEFAULT_BATCH_SIZE,
              batch_type |-> batch_type,
              add_area_constraints |-> add_area,
              dataset |-> ds,
              feasible_probs |-> fp.probs,
              infeasible_probs |-> fp.infeasible_probs,
              get_training_batch |->
                IF batch_type = "valid" THEN "get_valid_only_batch"
                ELSE IF batch_type = "mixed" THEN "get_mixed_batch"
                ELSE "get_all_batch"]
  IN IF IsExc(ds) THEN ds
     ELSE IF "batch_size" \in DOMAIN pd
          THEN obj @@ [_batch_size |-> pd.batch_size]
          ELSE obj

\* np.random.choice(np.arange(0, top), size, p) refuses a p that holds a
\* NaN, a negative entry, or does not sum to 1.
ChoiceRejects(p, top) ==
  \/ top = 0
  \/ \E i \in 0..(top - 1) : ~IsFinite(p[i])
  \/ \E i \in 0..(top - 1) : p[i].num * p[i].den < 0
  \/ SumFn([i \in 0..(top - 1) |-> p[i].num], top) # p[0].den

\* Variant of ChoiceIndices: the probabilities are ignored.
ChoiceIndicesUniform(p, top, size) == [1..size -> 0..(top - 1)]

\* The index vectors np.random.choice can return: every entry is an index of
\* positive probability.
ChoiceIndices(p, top, size) ==
  [1..size -> {i \in 0..(top - 1) : IsPositive(p[i])}]

\* The index vectors np.random.randint(low, high, size) can return.
RandintIndices(low, high, size) == [1..size -> low..(high - 1)]

\* get_valid_only_batch: the set of possible outcomes of one call.
get_valid_only_batch(pr) ==
  IF "_batch_size" \notin DOMAIN pr THEN {Exc("AttributeError")}
  ELSE IF ChoiceRejects(pr.feasible_probs, pr.dataset.top)
       THEN {Exc("ValueError")}
  ELSE {LET b == get_batch(pr.dataset, idx)
        IN [design |-> b.x, objective |-> b.y] :
        idx \in ChoiceIndices(pr.feasible_probs, pr.dataset.top,
                              pr._batch_size)}

\* get_mixed_batch: a valid-only draw and an infeasible-only draw.
get_mixed_batch(pr) ==
  IF "_batch_size" \notin DOMAIN pr THEN {Exc("AttributeError")}
  ELSE IF \/ ChoiceRejects(pr.feasible_probs, pr.dataset.top)
          \/ ChoiceRejects(pr.infeasible_probs, pr.dataset.top)
       THEN {Exc("ValueError")}
  ELSE {LET b == get_batch(pr.dataset, valid_indices)
            b_in == get_batch(pr.dataset, invalid_indices)
        IN [design |-> b.x, objective |-> b.y,
            invalid_design |-> b_in.x, invalid_objective |-> b_in.y] :
        valid_indices \in ChoiceIndices(pr.feasible_probs, pr.dataset.top,
                                        pr._batch_size),
        invalid_indices \in ChoiceIndices(pr.infeasible_probs,
                                          pr.dataset.top, pr._batch_size)}

\* get_all_batch: indices from np.random.randint(1, top, batch size).
get_all_batch(pr) ==
  IF "_batch_size" \notin DOMAIN pr THEN {Exc("AttributeError")}
  ELSE IF pr.dataset.top <= 1 THEN {Exc("ValueError")}
  ELSE {LET b == get_batch(pr.dataset, idx)
        IN [design |-> b.x, objective |-> b.y] :
        idx \in RandintIndices(1, pr.dataset.top, pr._batch_size)}

\* self.get_training_batch(): the method chosen at construction.
get_training_batch(pr) ==
  IF pr.get_training_batch = "get_valid_only_batch"
  THEN get_valid_only_batch(pr)
  ELSE IF pr.get_training_batch = "get_mixed_batch"
       THEN get_mixed_batch(pr)
       ELSE get_all_batch(pr)

----------------------------------------------------------------------------
(* SpecData: a problem is constructed from a configuration, a record       *)
(* source and a params_dict, and then its sampling methods are called.     *)

\* Field k takes k + 1 values: k, 2k, 4k, ...
ValueRangeOf(k) == [j \in 1..(k + 1) |-> k * 2^(j - 1)]

Reverse(s) == [i \in 1..Len(s) |-> s[Len(s) + 1 - i]]

\* Field configurations: the fields declared in training-key order and in
\* the opposite order.
Configs ==
  LET inOrder == [k \in 1..NumKeys |->
                    [name |-> active_training_keys[k],
                     value_range |-> ValueRangeOf(k)]]
  IN {inOrder, Reverse(inOrder)}

\* The raw values records take for field k: the first and the last value of
\* the field's range.
RawValues(k) == {ValueRangeOf(k)[1], ValueRangeOf(k)[k + 1]}
\* the areas records take: the whole number the threshold is, and the next
AreaValues == {AREA_THRESHOLD.num, AREA_THRESHOLD.num + 1}
InfeasibleValues == {0, 1}

\* Record i of a source has runtime 2 i + 1, so that scores tell records
\* apart. The first two records take every combination of raw values and
\* areas; the records after them take the last value of every field and an
\* area at the threshold, and differ in their flag.
RecordsAt(i) ==
  {[param |-> p, area |-> a, infeasible |-> f, runtime |-> 2 * i + 1] :
     p \in {q \in [1..NumKeys -> UNION {RawValues(k) : k \in 1..NumKeys}] :
              \A k \in 1..NumKeys :
                /\ q[k] \in RawValues(k)
                /\ i > 2 => q[k] = ValueRangeOf(k)[k + 1]},
     a \in {v \in AreaValues : i > 2 => v = AREA_THRESHOLD.num},
     f \in InfeasibleValues}

\* the sequences d with d[i] in sets[i] for every i
RECURSIVE ProductOf(_)
ProductOf(sets) ==
  IF sets = <<>> THEN {<<>>}
  ELSE {Append(d, r) : d \in ProductOf(SubSeq(sets, 1, Len(sets) - 1)),
                       r \in sets[Len(sets)]}

DataFiles == ProductOf([i \in 1..NumRecords |-> RecordsAt(i)])

BatchTypes == {"valid", "mixed", "all"}

\* params_dict with and without the key 'batch_size'
ParamsDicts ==
  {[batch_type |-> t, add_area_constraints |-> a] :
     t \in BatchTypes, a \in BOOLEAN}
  \cup
  {[batch_size |-> BatchSize, batch_type |-> t, add_area_constraints |-> a] :
     t \in BatchTypes, a \in BOOLEAN}

NoOutcome == [none |-> TRUE]

DataInit ==
  /\ config \in Configs
  /\ data_file \in DataFiles
  /\ params_dict \in ParamsDicts
  /\ problem = NoProblem
  /\ d_pc = "init"
  /\ d_out = NoOutcome
  \* no model and no call of train_eval_offline
  /\ model = NoModel
  /\ m_batch = <<>>
  /\ m_out = NoOutcome
  /\ m_prev = NoOutcome
  /\ args = NoOutcome
  /\ pc = "idle"
  /\ step = 0
  /\ train_problem = NoProblem
  /\ val_problem = NoProblem
  /\ save_dir = None
  /\ train_batch = NoOutcome
  /\ loss_dict = NoOutcome
  /\ summary = {}
  /\ saved = {}
  /\ raised = NoOutcome
  /\ r_input = <<>>
  /\ r_target = <<>>
  /\ r_context = None
  /\ r_out = NoOutcome

\* problem = HardwareOptProblem(config, data_file, params_dict)
Construct ==
  /\ d_pc = "init"
  /\ LET pr == HardwareOptProblem(config, data_file, params_dict)
     IN IF IsExc(pr)
        THEN /\ d_pc' = "error"
             /\ d_out' = [call |-> "__init__", result |-> pr]
             /\ problem' = problem
        ELSE /\ d_pc' = "ready"
             /\ d_out' = [call |-> "__init__", result |-> NoOutcome]
             /\ problem' = pr
  /\ UNCHANGED <<config, data_file, params_dict>>

CallGetValidOnlyBatch ==
  /\ d_pc = "ready"
  /\ \E r \in get_valid_only_batch(problem) :
       d_out' = [call |-> "get_valid_only_batch", result |-> r]
  /\ UNCHANGED <<config, data_file, params_dict, problem, d_pc>>

CallGetMixedBatch ==
  /\ d_pc = "ready"
  /\ \E r \in get_mixed_batch(problem) :
       d_out' = [call |-> "get_mixed_batch", result |-> r]
  /\ UNCHANGED <<config, data_file, params_dict, problem, d_pc>>

CallGetAllBatch ==
  /\ d_pc = "ready"
  /\ \E r \in get_all_batch(problem) :
       d_out' = [call |-> "get_all_batch", result |-> r]
  /\ UNCHANGED <<config, data_file, params_dict, problem, d_pc>>

\* problem.dataset.get_input_splits()
CallGetInputSplits ==
  /\ d_pc = "ready"
  /\ d_out' = [call |-> "get_input_splits",
               result |-> get_input_splits(problem.dataset)]
  /\ problem' = [problem EXCEPT
                   !.dataset = after_get_input_splits(problem.dataset)]
  /\ UNCHANGED <<config, data_file, params_dict, d_pc>>

\* problem.dataset.input_properties
CallInputProperties ==
  /\ d_pc = "ready"
  /\ d_out' = [call |-> "input_properties",
               result |-> input_properties(problem.dataset)]
  /\ UNCHANGED <<config, data_file, params_dict, problem, d_pc>>

\* the calls that sample a batch
SamplingCalls ==
  {"get_valid_only_batch", "get_mixed_batch", "get_all_batch"}

DataNext ==
  \/ Construct
  \/ CallGetValidOnlyBatch
  \/ CallGetMixedBatch
  \/ CallGetAllBatch
  \/ CallGetInputSplits
  \/ CallInputProperties


----------------------------------------------------------------------------
(* Properties of the dataset and the sampling policies (SpecData) *)

\* Record i (0-based) of the record source is feasible: its flag is 0 and,
\* under the area constraint, its area is at most the threshold.
RecordFeasible(i, add_area_constraints) ==
  /\ data_file[i + 1].infeasible = 0
  /\ add_area_constraints => data_file[i + 1].area <= 27

FeasibleRecords(add_area_constraints) ==
  {i \in 0..(Len(data_file) - 1) : RecordFeasible(i, add_area_constraints)}

InfeasibleRecords(add_area_constraints) ==
  {i \in 0..(Len(data_file) - 1) : ~RecordFeasible(i, add_area_constraints)}

SameFraction(p, q) == p.num * q.den = q.num * p.den

\* the entries p[0..n-1] share a non-zero denominator and add up to 1
SumsToOne(p, n) ==
  /\ \A i \in 0..(n - 1) : p[i].den = p[0].den /\ p[i].den # 0
  /\ SumFn([i \in 0..(n - 1) |-> p[i].num], n) = p[0].den

NeededProbs(pr) ==
  IF pr.batch_type = "valid" THEN {pr.feasible_probs}
  ELSE IF pr.batch_type = "mixed"
       THEN {pr.feasible_probs, pr.infeasible_probs}
       ELSE {}

HasNaN(p, n) == \E i \in 0..(n - 1) : IsNaN(p[i])

\* C9: when the partition the configured policy needs is empty, construction
\* or the policy call raises an error, no batch sampled from an empty
\* partition is returned, and no NaN probability vector is kept: a problem
\* that was constructed holds no NaN vector its policy needs.
C9_EmptyPartitionFails ==
  d_pc = "ready" =>
    /\ \A p \in NeededProbs(problem) : ~HasNaN(p, problem.dataset.top)
    /\ (d_out.call = "get_valid_only_batch" /\ ~IsExc(d_out.result))
         => FeasibleRecords(problem.add_area_constraints) # {}
    /\ (d_out.call = "get_mixed_batch" /\ ~IsExc(d_out.result))
         => /\ FeasibleRecords(problem.add_area_constraints) # {}
            /\ InfeasibleRecords(problem.add_area_constraints) # {}

\* The one-hot row of a raw record under the declared configuration: for
\* each training key, in order, a segment as long as the key's value range
\* with a single 1 at the position of the record's raw value.
PositionIn(value_range, x) ==
  CHOOSE j \in DOMAIN value_range : value_range[j] = x

EncodingOf(rec) ==
  ConcatAll([k \in 1..NumKeys |->
    LET vr == ValueRangeOf(k)
    IN [j \in 1..Len(vr) |-> IF j = PositionIn(vr, rec.param[k])
                              THEN 1 ELSE 0]])

\* the offset of key k's segment in a row
RECURSIVE SegmentStart(_)
SegmentStart(k) ==
  IF k = 1 THEN 0 ELSE SegmentStart(k - 1) + Len(ValueRangeOf(k - 1))

OneHotPerField(row) ==
  /\ Len(row) = SegmentStart(NumKeys) + Len(ValueRangeOf(NumKeys))
  /\ \A k \in 1..NumKeys :
       Cardinality({j \in 1..Len(ValueRangeOf(k)) :
                      row[SegmentStart(k) + j] = 1}) = 1
  /\ \A j \in 1..Len(row) : row[j] \in {0, 1}

\* rows xs with objectives ys are B encodings of records of the set R
RowsFrom(xs, ys, R, B) ==
  /\ Len(xs) = B
  /\ Len(ys) = B
  /\ \A b \in 1..B :
       /\ OneHotPerField(xs[b])
       /\ \E i \in R : /\ xs[b] = EncodingOf(data_file[i + 1])
                       /\ ys[b] = 0 - data_file[i + 1].runtime

\* C10: every batch get_mixed_batch returns has exactly B rows under
\* 'design', all encodings of feasible records, and exactly B rows under
\* 'invalid/design', all encodings of infeasible records, with B matching
\* objectives each; every batch get_valid_only_batch returns has B rows from
\* feasible records; every row has the total width with exactly one 1 in
\* each field's segment.
C10_BatchShape ==
  (d_pc = "ready" /\ d_out.call \in SamplingCalls /\ ~IsExc(d_out.result)) =>
    LET r == d_out.result
        B == params_dict.batch_size
        F == FeasibleRecords(problem.add_area_constraints)
        I == InfeasibleRecords(problem.add_area_constraints)
    IN /\ d_out.call = "get_mixed_batch" =>
            /\ RowsFrom(r.design, r.objective, F, B)
            /\ RowsFrom(r.invalid_design, r.invalid_objective, I, B)
       /\ d_out.call = "get_valid_only_batch" =>
            RowsFrom(r.design, r.objective, F, B)

\* C10 witness: get_mixed_batch returned a batch under the area constraint
\* whose invalid rows encode a record that is infeasible by its area only.
C10_Witness ==
  /\ d_pc = "ready"
  /\ d_out.call = "get_mixed_batch"
  /\ ~IsExc(d_out.result)
  /\ Len(d_out.result.design) = BatchSize
  /\ Len(d_out.result.invalid_design) = BatchSize
  /\ problem.add_area_constraints
  /\ \E i \in InfeasibleRecords(TRUE) :
       /\ data_file[i + 1].infeasible = 0
       /\ d_out.result.invalid_objective[1] = 0 - data_file[i + 1].runtime


----------------------------------------------------------------------------
(* PRIMETransformerModel                                                   *)
(*                                                                         *)
(* The networks are represented by a piecewise-linear stand-in with one    *)
(* integer weight per sub-network. The base network maps a row x to the    *)
(* embedding e = w_base * sum_j Kernel(j) * x[j]; expert k outputs         *)
(* w_k * |e|; the voting network outputs input-independent logits, 0 for   *)
(* expert 1 and w_voting for the others, and softmax is taken to base 2.   *)
(* Values are fixed-point integers: a division rounds down. Dropout is     *)
(* left out, so a forward pass is a function of the weights and the row.   *)

Abs(x) == IF x < 0 THEN 0 - x ELSE x
Sign(x) == IF x < 0 THEN 0 - 1 ELSE IF x > 0 THEN 1 ELSE 0

BaseNetwork == <<"base_network", 0>>
ExpertNetwork(k) == <<"all_networks", k>>
EmbeddingNetwork == <<"embedding_network", 0>>
VotingNetwork == <<"voting_network", 0>>

\* self.optimize_networks as built by __init__: the base network, the
\* num_votes experts, the context embedding network when contextual, and
\* the voting network.
optimize_networks(contextual, num_votes) ==
  <<BaseNetwork>> \o [k \in 1..num_votes |-> ExpertNetwork(k)]
    \o (IF contextual THEN <<EmbeddingNetwork>> ELSE <<>>)
    \o <<VotingNetwork>>

Range(s) == {s[i] : i \in DOMAIN s}

\* tf.keras.optimizers.Adam(learning_rate, beta_1, beta_2), epsilon left at
\* its default 1e-7. The learning rates used are whole numbers, so that the
\* weights stay whole.
Adam(learning_rate, beta_1, beta_2) ==
  [learning_rate |-> learning_rate, beta_1 |-> beta_1, beta_2 |-> beta_2]

\* Variant of PRIMETransformerModel: the width of the input layer is not
\* compared with the splits.
PRIMETransformerModel_unchecked(num_inputs, optimizer, penalty_weight, negative_sampler, contextual, pd, w0) ==
  LET num_votes == IF "num_votes" \in DOMAIN pd THEN pd.num_votes ELSE 1
  IN IF FALSE THEN Exc("ValueError")
     ELSE [num_inputs |-> num_inputs,
           optimizer |-> optimizer,
           contextual |-> contextual,
           cql_alpha_value |-> penalty_weight,
           negative_sampler |-> negative_sampler,
           num_gradient_infer_steps |->
             IF "num_gradient_steps" \in DOMAIN pd
             THEN pd.num_gradient_steps ELSE 0,
           opt_lr |-> IF "opt_lr" \in DOMAIN pd
                      THEN pd.opt_lr ELSE DEFAULT_OPT_LR,
           infeasible_alpha |->
             IF "infeasible_alpha" \in DOMAIN pd
             THEN pd.infeasible_alpha ELSE DEFAULT_INFEASIBLE_ALPHA,
           input_splits |-> pd.input_splits,
           num_votes |-> num_votes,
           optimize_networks |-> optimize_networks(contextual, num_votes),
           weights |-> [n \in Range(optimize_networks(contextual, num_votes))
                          |-> w0[n]],
           moments |-> [n \in Range(optimize_networks(contextual, num_votes))
                          |-> 0],
           slack |-> [n \in Range(optimize_networks(contextual, num_votes))
                        |-> [lo |-> 0, hi |-> 0]],
           applied |-> [n \in Range(optimize_networks(contextual, num_votes))
                          |-> 0],
           iterations |-> 0]

\* PRIMETransformerModel.__init__: the optimizer it is handed, the
\* hyper-parameters read from params_dict with their defaults, and the
\* freshly initialised weights w0. iterations is the optimizer's step
\* counter, applied[n] the number of gradient applications that covered the
\* variables of network n, and moments[n] the sign of the first moment Adam
\* keeps for them (0 before the first application). The variable of network
\* n is weights[n] when slack[n].lo = slack[n].hi (both are 0 then), and
\* otherwise a float32 number strictly between weights[n] + slack[n].lo and
\* weights[n] + slack[n].hi.
\* The input layer has width num_inputs, and SplitEmbeddingLayer splits it
\* with tf.split into segments of the sizes input_splits: sizes that do not
\* add up to the width are refused when the layer is applied, in __init__.
PRIMETransformerModel(num_inputs, optimizer, penalty_weight, negative_sampler, contextual, pd, w0) ==
  LET num_votes == IF "num_votes" \in DOMAIN pd THEN pd.num_votes ELSE 1
  IN IF SumSeq(pd.input_splits) # num_inputs THEN Exc("ValueError")
     ELSE [num_inputs |-> num_inputs,
           optimizer |-> optimizer,
           contextual |-> contextual,
           cql_alpha_value |-> penalty_weight,
           negative_sampler |-> negative_sampler,
           num_gradient_infer_steps |->
             IF "num_gradient_steps" \in DOMAIN pd
             THEN pd.num_gradient_steps ELSE 0,
           opt_lr |-> IF "opt_lr" \in DOMAIN pd
                      THEN pd.opt_lr ELSE DEFAULT_OPT_LR,
           infeasible_alpha |->
             IF "infeasible_alpha" \in DOMAIN pd
             THEN pd.infeasible_alpha ELSE DEFAULT_INFEASIBLE_ALPHA,
           input_splits |-> pd.input_splits,
           num_votes |-> num_votes,
           optimize_networks |-> optimize_networks(contextual, num_votes),
           weights |-> [n \in Range(optimize_networks(contextual, num_votes))
                          |-> w0[n]],
           moments |-> [n \in Range(optimize_networks(contextual, num_votes))
                          |-> 0],
           slack |-> [n \in Range(optimize_networks(contextual, num_votes))
                        |-> [lo |-> 0, hi |-> 0]],
           applied |-> [n \in Range(optimize_networks(contextual, num_votes))
                          |-> 0],
           iterations |-> 0]

\* the fixed pattern of the embedding kernel
Kernel(j) == (j % 3) - 1

RECURSIVE Dot(_, _)
\* sum_j Kernel(j) * x[j] over the first n entries of x
Dot(x, n) == IF n = 0 THEN 0 ELSE Kernel(n) * x[n] + Dot(x, n - 1)

\* transformer_embedding = self._base_network(inputs)
base_network(m, x) == m.weights[BaseNetwork] * Dot(x, Len(x))

\* the logit of expert k, shifted so that no logit is negative (softmax and
\* log_softmax do not change under a common shift). It is taken at
\* weights[VotingNetwork]: the voting variable leaves that value only while
\* all experts have one weight (see rounding_residue), and then the mixture of
\* the experts is that weight for every logit.
vote_logit(m, k) ==
  LET v == m.weights[VotingNetwork]
  IN IF k = 1 THEN (IF v < 0 THEN 0 - v ELSE 0)
     ELSE (IF v > 0 THEN v ELSE 0)

\* 2^logit of expert k
vote_exp(m, k) == 2^vote_logit(m, k)

RECURSIVE VoteSum(_, _)
VoteSum(m, k) == IF k = 0 THEN 0 ELSE vote_exp(m, k) + VoteSum(m, k - 1)

\* vote_prob = softmax(vote_logit), as an exact fraction
vote_prob(m, k) == Div(vote_exp(m, k), VoteSum(m, m.num_votes))

RECURSIVE MixedWeight(_, _)
\* sum over the experts of 2^logit_k * w_k
MixedWeight(m, k) ==
  IF k = 0 THEN 0
  ELSE vote_exp(m, k) * m.weights[ExpertNetwork(k)] + MixedWeight(m, k - 1)

RECURSIVE VoteLogitSum(_, _)
\* sum over the experts of 2^logit_k * logit_k
VoteLogitSum(m, k) ==
  IF k = 0 THEN 0
  ELSE vote_exp(m, k) * vote_logit(m, k) + VoteLogitSum(m, k - 1)

\* extra_dict['vote_entropy'] = reduce_mean(reduce_sum(log_softmax(logit) *
\* vote_prob)). The logits are the same for every row, so the mean is the
\* value of one row: sum_k p_k * logit_k - log2(sum_k 2^logit_k), kept as
\* the fraction `linear` and the argument `log2_of` of the logarithm.
vote_entropy(m) ==
  [linear |-> Div(VoteLogitSum(m, m.num_votes), VoteSum(m, m.num_votes)),
   log2_of |-> VoteSum(m, m.num_votes),
   slack |-> m.slack[VotingNetwork]]

\* all_outputs: the output of every expert on the embedding of row x
all_outputs(m, x) ==
  [k \in 1..m.num_votes |->
     m.weights[ExpertNetwork(k)] * Abs(base_network(m, x))]

\* Variant of call: the expert outputs are weighted by the unnormalised
\* exponentials of the vote logits.
call_unnormalised(m, x) ==
  Div(MixedWeight(m, m.num_votes) * Abs(base_network(m, x)), 1)

\* call: fwd_model_pred = reduce_sum(vote_prob * all_outputs) for one row,
\* as the exact fraction sum_k 2^logit_k * output_k / sum_k 2^logit_k (not
\* reduced). The stand-in is homogeneous in x: on a row of numerators over a
\* common denominator d the fraction is d times the prediction.
call(m, x) ==
  Div(MixedWeight(m, m.num_votes) * Abs(base_network(m, x)),
      VoteSum(m, m.num_votes))

\* the forward pass on every row of a batch of rows; every prediction has
\* the denominator VoteSum
call_batch(m, xs) == [b \in DOMAIN xs |-> call(m, xs[b])]

\* the numerators of a vector of fractions
Nums(v) == [b \in DOMAIN v |-> v[b].num]

\* d call(m, x) / d x, the gradient of the prediction for row x with respect
\* to x, every entry an exact fraction over VoteSum; it depends on the sign
\* of the embedding only, so it is the same for a row and for its numerators
\* over a positive denominator.
call_grad(m, x) ==
  [j \in DOMAIN x |->
     Div(MixedWeight(m, m.num_votes) * Sign(base_network(m, x))
           * m.weights[BaseNetwork] * Kernel(j),
         VoteSum(m, m.num_votes))]

\* tape.gradient(model_pred, log_probs): row i holds the gradient of the
\* summed predictions with respect to row i, which is the gradient of
\* example i's own prediction.
tape_gradient(m, log_probs) ==
  [b \in DOMAIN log_probs |-> call_grad(m, log_probs[b])]


\* the single element of a one-element set
Only(S) == CHOOSE x \in S : TRUE

\* the denominator of opt_lr * grad: that of opt_lr times VoteSum
StepDen(m) == m.opt_lr.den * VoteSum(m, m.num_votes)

\* the rows of a tensor, every entry times c
Scaled(rows, c) ==
  [b \in DOMAIN rows |-> [j \in DOMAIN rows[b] |-> c * rows[b][j]]]

\* One step of the loop of infer_negatives:
\* log_probs = log_probs + self.opt_lr * grad[0]. grad[0] is the first row
\* of the gradient, and the addition broadcasts it over every row. The
\* entries of log_probs are numerators over StepDen(m), the denominator of
\* opt_lr times that of the gradient, which is the same at every step.
ascent_step(m, log_probs) ==
  Only({[b \in DOMAIN log_probs |->
           [j \in DOMAIN log_probs[b] |->
              log_probs[b][j] + m.opt_lr.num * grad0[j].num]] :
        grad0 \in {tape_gradient(m, log_probs)[1]}})

\* Variant of ascent: the loop runs one step too many.
RECURSIVE ascent_extra(_, _, _)
ascent_extra(m, log_probs, steps) ==
  IF steps < 0 THEN log_probs
  ELSE Only({ascent_extra(m, next, steps - 1) :
               next \in {ascent_step(m, log_probs)}})

\* The loop of infer_negatives: `steps` ascent steps from log_probs.
RECURSIVE ascent(_, _, _)
ascent(m, log_probs, steps) ==
  IF steps = 0 THEN log_probs
  ELSE Only({ascent(m, next, steps - 1) :
               next \in {ascent_step(m, log_probs)}})

\* Variant of infer_negatives: the ascent writes its result back into the
\* batch it was given (an in-place update of batch['design']).
infer_negatives_in_place(m, batch) ==
  LET den == IF m.num_gradient_infer_steps = 0 THEN 1 ELSE StepDen(m)
      log_probs == ascent(m, Scaled(batch.design, den),
                          m.num_gradient_infer_steps)
  IN [temp_batch |-> [design |-> log_probs],
      den |-> den,
      batch |-> [batch EXCEPT !.design = log_probs],
      model |-> m]

\* infer_negatives(batch): the returned temp_batch, together with the batch
\* and the model as they are after the call. Tensors are immutable and the
\* loop rebinds the local name log_probs, so both are left as they were.
\* The entries of temp_batch.design are numerators over den: StepDen(m),
\* or 1 when the loop runs no step and log_probs is the design of the batch
\* itself.
infer_negatives(m, batch) ==
  LET den == IF m.num_gradient_infer_steps = 0 THEN 1 ELSE StepDen(m)
  IN [temp_batch |->
        [design |-> ascent(m, Scaled(batch.design, den),
                           m.num_gradient_infer_steps)],
      den |-> den,
      batch |-> batch,
      model |-> m]

----------------------------------------------------------------------------
(* compute_loss                                                            *)
(*                                                                         *)
(* Every loss value of a batch of B rows is kept as an integer numerator   *)
(* over a common denominator: LossDen(B) = 10 B^2 for whole numbers (a     *)
(* mean over the batch is its sum times 10 B, and the pairwise             *)
(* cross-entropy is tabulated in tenths), and LossDen(B) times PredDen,    *)
(* the common denominator of the predictions and their squares, in         *)
(* compute_loss.                                                           *)

LossDen(B) == 10 * B * B

\* tf.reduce_mean of a vector of B integers, as a numerator over LossDen(B)
reduce_mean(v) == SumSeq(v) * 10 * Len(v)

\* tf.clip_by_value on a vector of predictions
clip_by_value(v, lo, hi) == [b \in DOMAIN v |-> Clip(v[b], lo, hi)]

\* tf.clip_by_value(x / d, lo, hi) as a numerator over d > 0; x < lo * d
\* is tested as x \div d < lo and x >= hi * d as x \div d >= hi, which
\* keeps the products out of the tests.
ClipOver(x, lo, hi, d) ==
  IF x \div d < lo THEN lo * d ELSE IF x \div d >= hi THEN hi * d ELSE x

\* the denominator of the predictions on rows that are numerators over
\* den: den times the denominator of the fractions call returns
NegDen(negatives_pred, den) == den * negatives_pred[1].den

\* Variant of clip_negatives_pred: the per-prediction clip is missing.
clip_negatives_pred_none(negatives_pred, den) == Nums(negatives_pred)

\* negatives_pred = tf.clip_by_value(negatives_pred, -4000.0, 4000.0) for
\* the predictions on rows that are numerators over den; the result is a
\* vector of numerators over NegDen(negatives_pred, den)
clip_negatives_pred(negatives_pred, den) ==
  clip_by_value(Nums(negatives_pred),
                NEG_PRED_MIN * NegDen(negatives_pred, den),
                NEG_PRED_MAX * NegDen(negatives_pred, den))

\* cql_loss = clip(reduce_mean(clipped negatives_pred), -4000, 1e6), as a
\* numerator over LossDen(B) * NegDen(negatives_pred, den)
cql_loss_of(negatives_pred, den) ==
  LET B == Len(negatives_pred)
  IN ClipOver(reduce_mean(clip_negatives_pred(negatives_pred, den)),
              CQL_MIN, CQL_MAX, LossDen(B) * NegDen(negatives_pred, den))

\* The common denominator of the loss values: a multiple of vs^2 (the
\* squared error of predictions over vs) and of vs * den (the predictions on
\* negatives that are numerators over den).
PredDen(vs, den) == IF den % vs = 0 THEN den * vs ELSE den * vs * vs

\* a numerator over LossDen(n) as a numerator over LossDen(B); n is B, or
\* divides B
OverLossDen(x, n, B) == IF n = B THEN x ELSE (x * B * B) \div (n * n)

\* weighted_mse_loss(input, target, weight) with unit weights, for
\* predictions that are fractions over one denominator d and whole targets:
\* a numerator over LossDen(B) * d^2
weighted_mse_loss(input, target) ==
  reduce_mean([b \in DOMAIN input |->
                 (input[b].num - target[b] * input[b].den)
                   * (input[b].num - target[b] * input[b].den)])

\* weighted_approx_loss(input, target, weight) with unit weights:
\* reduce_mean(ratio_diff) with ratio_diff = abs_diff / (abs(target) + 1e-6),
\* kept as the terms abs_diff (a fraction) and abs(target) of every example.
weighted_approx_loss(input, target) ==
  [ratio_diff |-> [b \in DOMAIN input |->
                     [abs_diff |->
                        Div(Abs(input[b].num - target[b] * input[b].den),
                            input[b].den),
                      abs_target |-> Abs(target[b])]]]

\* sigmoid_cross_entropy_with_logits(labels = 1, logits = z) = ln(1 + e^-z),
\* rounded to tenths
sigmoid_cross_entropy(z) ==
  IF z >= 3 THEN 0
  ELSE IF z <= 0 - 3 THEN 0 - 10 * z
  ELSE CASE z = 0 -> 7
         [] z = 1 -> 3
         [] z = 2 -> 1
         [] z = 0 - 1 -> 13
         [] z = 0 - 2 -> 21

RECURSIVE SumPairs(_, _, _, _)
\* sum over the cells (i, j), enumerated row by row up to cell number c, of
\* the cross-entropy of sign(input_i - input_j) * (target_i - target_j)
SumPairs(input, target, B, c) ==
  IF c = 0 THEN 0
  ELSE LET i == ((c - 1) \div B) + 1
           j == ((c - 1) % B) + 1
           diff_true == input[i] - input[j]
           diff_pred == target[i] - target[j]
       IN sigmoid_cross_entropy(Sign(diff_true) * diff_pred)
            + SumPairs(input, target, B, c - 1)

\* ranking_trainable_loss(input, target) without context: the mean over all
\* B^2 pairs, as a numerator over LossDen(B).
ranking_trainable_loss(input, target) ==
  SumPairs(input, target, Len(input), Len(input) * Len(input))

\* Variant of train_loss_sum: the error on the invalid batch is added too.
train_loss_sum_overall(mse_loss, ranking_penalty_weight, avg_ranking_train_loss, cql_alpha_value, cql_loss, infeasible_alpha, y_value_infeasible, mse_loss_invalid) ==
  infeasible_alpha.den
      * (mse_loss + mse_loss_invalid
           + ranking_penalty_weight * avg_ranking_train_loss
           + cql_alpha_value * cql_loss)
    + infeasible_alpha.num * y_value_infeasible

\* The sum compute_loss builds up in train_loss (y_value_infeasible is 0 when
\* the invalid branch is not taken). The terms are numerators over a common
\* denominator d, the result is a numerator over d * infeasible_alpha.den.
train_loss_sum(mse_loss, ranking_penalty_weight, avg_ranking_train_loss, cql_alpha_value, cql_loss, infeasible_alpha, y_value_infeasible, mse_loss_invalid) ==
  infeasible_alpha.den
      * (mse_loss
           + ranking_penalty_weight * avg_ranking_train_loss
           + cql_alpha_value * cql_loss)
    + infeasible_alpha.num * y_value_infeasible

\* The objects passed as inp_batch_type: None, the string literal 'valid'
\* of the source (CPython interns it, so every occurrence of the literal is
\* one object), and a string equal to 'valid' that was built at run time,
\* which is a different object.
ValidLiteral == [str |-> "valid", interned |-> TRUE]
ValidBuilt == [str |-> "valid", interned |-> FALSE]
BatchTypeObjects == {None, ValidLiteral, ValidBuilt}

\* `inp_batch_type is not 'valid'`: a comparison of identity with the
\* literal, so only the literal itself is 'valid'.
is_not_valid(inp_batch_type) == inp_batch_type # ValidLiteral

\* tf.argsort(v, axis=-1) of a column v (1-based positions here, 0-based
\* indices as values): the indices of v in ascending order of value, equal
\* values in index order.
argsort(v) ==
  [p \in DOMAIN v |->
     CHOOSE i \in 0..(Len(v) - 1) :
       Cardinality({j \in 0..(Len(v) - 1) :
                      \/ v[j + 1] < v[i + 1]
                      \/ (v[j + 1] = v[i + 1] /\ j < i)}) = p - 1]

\* n times (v - reduce_mean(v)), elementwise
Centered(v) == [p \in DOMAIN v |-> Len(v) * v[p] - SumSeq(v)]

\* n^3 times reduce_mean(a' * b') for the centered columns a', b'
CenteredProduct(a, b) ==
  SumSeq([p \in DOMAIN a |-> Centered(a)[p] * Centered(b)[p]])

\* ranking_loss without context: the Pearson correlation of the ranks,
\* cov / (std_target * std_input), kept as cov and the two variances (all
\* three over the common denominator n^3). A batch of one example is
\* squeezed to a tensor without axes, which argsort refuses.
ranking_loss(input, target) ==
  IF Len(input) = 1 THEN Exc("InvalidArgumentError")
  ELSE Only({[cov |-> CenteredProduct(target_ranks, input_ranks),
              var_target |-> CenteredProduct(target_ranks, target_ranks),
              var_input |-> CenteredProduct(input_ranks, input_ranks)] :
             input_ranks \in {argsort(argsort(input))},
             target_ranks \in {argsort(argsort(target))}})

\* the pairs (i, j) whose product of signs counts as positive under the
\* strict comparison greater
positive_pairs_strict(input, target) ==
  {ij \in (DOMAIN input) \X (DOMAIN input) :
     Sign(input[ij[1]] - input[ij[2]])
       * Sign(target[ij[1]] - target[ij[2]]) > 0}

\* positive_pairs: the pairs (i, j), i = j included, with
\* sign(input_i - input_j) * sign(target_i - target_j) >= 0
positive_pairs(input, target) ==
  {ij \in (DOMAIN input) \X (DOMAIN input) :
     Sign(input[ij[1]] - input[ij[2]])
       * Sign(target[ij[1]] - target[ij[2]]) >= 0}

\* kendall_correlation without context: 2 * ratio - 1 with
\* ratio = (sum(positive_pairs) - n) / (n * (n - 1)), as a fraction; for
\* n = 1 the division is 0 / 0.
kendall_correlation(input, target) ==
  LET n == Len(input)
      total_positive == Cardinality(positive_pairs(input, target)) - n
  IN Div(2 * total_positive - n * (n - 1), n * (n - 1))

\* The part of compute_loss after the forward passes (from the clip of
\* negatives_pred on): the entries of loss_dict and train_loss for the
\* predictions model_pred (valid batch), negatives_pred (negative batch,
\* on rows that are numerators over den) and model_pred_invalid (invalid
\* batch, used in the invalid branch only), each a vector of fractions over
\* vs = VoteSum. Every number of loss_dict is a numerator over
\* result.den = LossDen(B) * PredDen(vs, den), train_loss a numerator over
\* result.train_loss_den; vote_entropy, avg_approx_loss, avg_ranking_loss
\* and avg_kendall_loss are kept in the forms of the operators that compute
\* them. The ranking operators read the order of the predictions only,
\* which is the order of their numerators. The diagnostic ranking_loss runs
\* for every loss_type, and raises on a batch of one example.
loss_terms(m, data_batch, loss_type, ranking_penalty_weight, invalid_branch, model_pred, negatives_pred, model_pred_invalid, den) ==
  LET B == Len(data_batch.design)
      vs == model_pred[1].den
      P == PredDen(vs, den)
      cql_loss ==
        (P \div (vs * den))
          * OverLossDen(cql_loss_of(negatives_pred, den),
                        Len(negatives_pred), B)
      negatives_dist ==
        (P \div (vs * den))
          * OverLossDen(reduce_mean(clip_negatives_pred(negatives_pred,
                                                        den)),
                        Len(negatives_pred), B)
      mse_loss ==
        (P \div (vs * vs))
          * weighted_mse_loss(model_pred, data_batch.objective)
      avg_ranking_train_loss ==
        IF loss_type = "mse+rank"
        THEN P * ranking_trainable_loss(Nums(model_pred),
                                        data_batch.objective)
        ELSE 0
      avg_ranking_loss ==
        ranking_loss(Nums(model_pred), data_batch.objective)
      y_value_infeasible ==
        (P \div vs)
          * Clip(reduce_mean(Nums(model_pred_invalid)),
                 INFEASIBLE_MIN * LossDen(B) * vs,
                 INFEASIBLE_MAX * LossDen(B) * vs)
      mse_loss_invalid ==
        (P \div (vs * vs))
          * weighted_mse_loss(model_pred_invalid,
                              data_batch.invalid_objective)
      common == [y_values_max |->
                   LossDen(B) * P * Max(Range(data_batch.objective)),
                 y_values_mean |-> P * reduce_mean(data_batch.objective),
                 vote_entropy |-> vote_entropy(m),
                 negatives_dist |-> negatives_dist,
                 mse_loss |-> mse_loss,
                 avg_approx_loss |->
                   weighted_approx_loss(model_pred, data_batch.objective),
                 avg_ranking_loss |-> avg_ranking_loss,
                 avg_ranking_train_loss |-> avg_ranking_train_loss,
                 avg_kendall_loss |->
                   kendall_correlation(Nums(model_pred),
                                       data_batch.objective),
                 cql_loss |-> cql_loss,
                 negatives_pred |-> negatives_dist,
                 model_pred_average |->
                   (P \div vs) * reduce_mean(Nums(model_pred))]
  IN IF IsExc(avg_ranking_loss) THEN avg_ranking_loss
     ELSE IF invalid_branch
     THEN [loss_dict |-> common @@
             [y_value_infeasible |-> y_value_infeasible,
              mse_loss_invalid |-> mse_loss_invalid,
              mse_loss_overall |-> mse_loss + mse_loss_invalid,
              avg_approx_loss_invalid |->
                weighted_approx_loss(model_pred_invalid,
                                     data_batch.invalid_objective)]
             @@ ("invalid/vote_entropy" :> vote_entropy(m)),
           den |-> LossDen(B) * P,
           train_loss |->
             train_loss_sum(mse_loss, ranking_penalty_weight,
                            avg_ranking_train_loss, m.cql_alpha_value,
                            cql_loss, m.infeasible_alpha,
                            y_value_infeasible, mse_loss_invalid),
           train_loss_den |-> LossDen(B) * P * m.infeasible_alpha.den,
           preds |-> [model_pred |-> model_pred,
                      negatives_pred |-> negatives_pred,
                      model_pred_invalid |-> model_pred_invalid]]
     ELSE [loss_dict |-> common,
           den |-> LossDen(B) * P,
           train_loss |->
             train_loss_sum(mse_loss, ranking_penalty_weight,
                            avg_ranking_train_loss, m.cql_alpha_value,
                            cql_loss, m.infeasible_alpha, 0, 0),
           train_loss_den |-> LossDen(B) * P * m.infeasible_alpha.den,
           preds |-> [model_pred |-> model_pred,
                      negatives_pred |-> negatives_pred]]

\* self.negative_sampler.run_inference(num_iters=2, model=self)
SAMPLER_NUM_ITERS == 2

RECURSIVE run_inference(_, _, _)
\* run_inference(num_iters, model) of an external negative sampler. The
\* sampler is not part of the program: it is represented by the candidate
\* designs it holds, which it moves num_iters times along the gradient of
\* the model's prediction, and by whether it does so with operations a
\* gradient tape records. Its arguments are num_iters and the model. The
\* rows returned are numerators over StepDen(m).
run_inference(sampler, num_iters, m) ==
  IF num_iters = 0 THEN Scaled(sampler.designs, StepDen(m))
  ELSE Only({[b \in DOMAIN rows |->
                [j \in DOMAIN rows[b] |->
                   rows[b][j]
                     + m.opt_lr.num * tape_gradient(m, rows)[b][j].num]] :
             rows \in {run_inference(sampler, num_iters - 1, m)}})

\* Variant of negatives_batch_of: the tensor a sampler returns is passed
\* through stop_gradient.
negatives_batch_of_detached(m, data_batch) ==
  IF m.negative_sampler # None
  THEN [temp_batch |->
          [design |-> run_inference(m.negative_sampler, SAMPLER_NUM_ITERS,
                                    m)],
        den |-> StepDen(m),
        batch |-> data_batch,
        model |-> m,
        arguments |-> {"num_iters", "model"},
        on_tape |-> FALSE]
  ELSE infer_negatives(m, data_batch)
         @@ [arguments |-> {"batch"}, on_tape |-> FALSE]

\* negatives_batch of compute_loss: from the sampler when there is one,
\* else from infer_negatives(data_batch). arguments names what the
\* generator is called with; on_tape tells whether the returned tensor is
\* connected, on the tape of perform_training, to the operations that
\* generated it: infer_negatives ends with tf.stop_gradient, the result of
\* a sampler is used as returned.
negatives_batch_of(m, data_batch) ==
  IF m.negative_sampler # None
  THEN [temp_batch |->
          [design |-> run_inference(m.negative_sampler, SAMPLER_NUM_ITERS,
                                    m)],
        den |-> StepDen(m),
        batch |-> data_batch,
        model |-> m,
        arguments |-> {"num_iters", "model"},
        on_tape |-> m.negative_sampler.differentiable]
  ELSE infer_negatives(m, data_batch)
         @@ [arguments |-> {"batch"}, on_tape |-> FALSE]

\* the ways train_loss depends on the watched variables: through the
\* forward passes on the valid, the negative and the invalid batch, and
\* through the generation of the negatives when that is on the tape
tape_paths(neg, invalid_branch) ==
  {"model_pred", "negatives_pred"}
    \cup (IF invalid_branch THEN {"model_pred_invalid"} ELSE {})
    \cup (IF neg.on_tape THEN {"negatives_batch"} ELSE {})

\* compute_loss(data_batch, loss_type, training, ranking_penalty_weight,
\* inp_batch_type) for a model without context: the forward pass on the
\* valid batch, the negatives of the sampler or of infer_negatives, the
\* forward pass on the negatives and, unless inp_batch_type is 'valid', on
\* the invalid batch. Returns the exception of the ranking diagnostics on a
\* batch of one example, or the KeyError of a missing batch key (raised
\* later, where the invalid batch is read), or loss_dict and train_loss;
\* preds holds the raw predictions of the forward passes, negatives the
\* negative batch (numerators over negatives.den) and the arguments its
\* generator was called with, tape_paths the dependencies of train_loss,
\* model and batch are the model and the caller's batch as the call leaves
\* them.
compute_loss(m, data_batch, loss_type, ranking_penalty_weight, inp_batch_type) ==
  IF Len(data_batch.design) = 1
  THEN ranking_loss(Nums(call_batch(m, data_batch.design)),
                    data_batch.objective)
  ELSE IF is_not_valid(inp_batch_type)
            /\ "invalid_design" \notin DOMAIN data_batch
  THEN Exc("KeyError")
  ELSE Only({
    Only({loss_terms(neg.model, neg.batch, loss_type,
                     ranking_penalty_weight, is_not_valid(inp_batch_type),
                     model_pred, negatives_pred, model_pred_invalid,
                     neg.den)
            @@ [model |-> neg.model, batch |-> neg.batch,
                negatives |-> [design |-> neg.temp_batch.design,
                               den |-> neg.den,
                               arguments |-> neg.arguments],
                tape_paths |->
                  tape_paths(neg, is_not_valid(inp_batch_type))] :
          negatives_pred \in
            {call_batch(neg.model, neg.temp_batch.design)},
          model_pred_invalid \in
            {IF is_not_valid(inp_batch_type)
             THEN call_batch(neg.model, neg.batch.invalid_design)
             ELSE <<>>}}) :
    model_pred \in {call_batch(m, data_batch.design)},
    neg \in {negatives_batch_of(m, data_batch)}})

\* measure_stats(batch, batch_type): compute_loss with loss_type 'mse+rank',
\* training = False and no ranking penalty; returns loss_dict.
measure_stats(m, batch, batch_type) ==
  compute_loss(m, batch, "mse+rank", 0, batch_type)

\* x / d lies inside [lo, hi], where tf.clip_by_value passes the gradient
PassesClip(x, lo, hi, d) ==
  /\ x \div d >= lo
  /\ (x \div d < hi \/ (x \div d = hi /\ x % d = 0))

\* |sum_j Kernel(j) * x[j]| for every row of a batch of rows
AbsDot(xs) == [b \in DOMAIN xs |-> Abs(Dot(xs[b], Len(xs[b])))]

\* d train_loss / d pred, taken along |Dot(x)|, for the result r of
\* compute_loss, times the positive number
\* B * n * r.negatives.den * infeasible_alpha.den * vs (B valid rows, n
\* negative rows, predictions over vs): the squared error on the valid batch, cql_alpha times the mean of
\* the negative predictions the two clips let through, and, in the invalid
\* branch, infeasible_alpha times the mean prediction on the invalid batch
\* when its clip lets it through. The ranking term has no gradient: its
\* logit is tf.sign of the difference of the predictions, times a
\* difference of objectives. The negative batch is a constant (the paths
\* through its generation are in tape_paths).
loss_slope(m, r) ==
  LET model_pred == r.preds.model_pred
      negatives_pred == r.preds.negatives_pred
      B == Len(model_pred)
      n == Len(negatives_pred)
      S == r.negatives.den
      vs == model_pred[1].den
      a == m.infeasible_alpha
      D == AbsDot(r.batch.design)
      Dneg == AbsDot(r.negatives.design)
      outer == PassesClip(reduce_mean(clip_negatives_pred(negatives_pred, S)),
                          CQL_MIN, CQL_MAX,
                          LossDen(n) * NegDen(negatives_pred, S))
      mse == SumSeq([b \in 1..B |->
                       (model_pred[b].num - r.batch.objective[b] * vs)
                         * D[b]])
      cql == IF outer
             THEN SumSeq([b \in 1..n |->
                            IF PassesClip(negatives_pred[b].num, NEG_PRED_MIN,
                                          NEG_PRED_MAX,
                                          NegDen(negatives_pred, S))
                            THEN Dneg[b] ELSE 0])
             ELSE 0
      inf == IF /\ "model_pred_invalid" \in DOMAIN r.preds
                /\ PassesClip(reduce_mean(Nums(r.preds.model_pred_invalid)),
                              INFEASIBLE_MIN, INFEASIBLE_MAX, LossDen(B) * vs)
             THEN SumSeq(AbsDot(r.batch.invalid_design))
             ELSE 0
  IN 2 * n * S * a.den * mse
       + m.cql_alpha_value * B * a.den * vs * cql
       + a.num * n * S * vs * inf

\* the sign of d train_loss / d (the weight of network net) for the result r
\* of compute_loss on model m. A prediction is
\* (MixedWeight / VoteSum) * |w_base * Dot(x)|: it grows with every expert
\* weight in proportion to |w_base * Dot(x)|, with w_base in proportion to
\* MixedWeight * sign(w_base) * |Dot(x)|, and with the voting logit in
\* proportion to (sum of the other experts' weights - (num_votes - 1) * w_1)
\* * |w_base * Dot(x)|; tf.abs has gradient 0 at 0.
exact_gradient_sign(m, r, net) ==
  LET w_base == m.weights[BaseNetwork]
      slope == Sign(loss_slope(m, r))
      others == SumSeq([k \in 1..m.num_votes |->
                          IF k = 1 THEN 0 ELSE m.weights[ExpertNetwork(k)]])
  IN IF net = BaseNetwork
     THEN Sign(MixedWeight(m, m.num_votes)) * Sign(w_base) * slope
     ELSE IF net = VotingNetwork
     THEN Sign(others - (m.num_votes - 1) * m.weights[ExpertNetwork(1)])
            * Sign(Abs(w_base)) * slope
     ELSE Sign(Abs(w_base)) * slope

\* The gradient of the voting network is the softmax Jacobian applied to the
\* gradients g_k of the vote probabilities, p_k * (g_k - sum_j p_j * g_j).
\* When the derivative is exactly zero although the g_k are not, the float32
\* value is what the roundings of the p_j leave of the cancellation: zero
\* when the p_j are exact (a logit of 0, or a single expert), and otherwise
\* zero or a residue of either sign, of the order of 1e-7.
rounding_residue(m, r, net) ==
  /\ net = VotingNetwork
  /\ m.num_votes > 1
  /\ exact_gradient_sign(m, r, net) = 0
  /\ m.weights[BaseNetwork] # 0
  /\ loss_slope(m, r) # 0
  /\ \E k \in 1..m.num_votes : m.weights[ExpertNetwork(k)] # 0
  /\ \/ m.weights[VotingNetwork] # 0
     \/ m.slack[VotingNetwork].lo # m.slack[VotingNetwork].hi

\* the possible signs of the float32 value of d train_loss / d (the weight
\* of network net)
gradient_sign(m, r, net) ==
  IF rounding_residue(m, r, net) THEN {0 - 1, 0, 1}
  ELSE {exact_gradient_sign(m, r, net)}

\* grads = tape.gradient(loss_train, variables of optimize_networks): the
\* possible signs of the gradient of every network. When the generation of
\* the negatives is on the tape, train_loss also depends on the variables
\* through operations of the external sampler, and every sign is possible;
\* with a single expert the softmax of the one voting logit is constant, and
\* the gradient of the voting network is zero on every path.
GradientChoices(m, r) ==
  IF "negatives_batch" \in r.tape_paths
  THEN {g \in [Range(m.optimize_networks) -> {0 - 1, 0, 1}] :
          m.num_votes = 1 => g[VotingNetwork] = 0}
  ELSE {g \in [Range(m.optimize_networks) -> {0 - 1, 0, 1}] :
          \A net \in Range(m.optimize_networks) :
            g[net] \in gradient_sign(m, r, net)}

\* The optimizer is the one the caller hands to __init__, an Adam with
\* beta_1 = beta_2 = 0. Its first moment after grads is
\* m = beta_1 * m + (1 - beta_1) * g = g, kept as its sign.
adam_moments(m, grads) ==
  [n \in DOMAIN m.moments |->
     IF n \in DOMAIN grads THEN grads[n] ELSE m.moments[n]]

\* The step Adam takes, as the amount subtracted from every weight:
\* learning_rate * m_hat / (sqrt(v_hat) + epsilon). With beta_1 = beta_2 = 0
\* the moments are m = g and v = g^2 and both bias corrections are 1, at
\* every application, so the step is learning_rate * g / (|g| + epsilon),
\* epsilon = 1e-7: learning_rate times the sign of the gradient, and 0 for a
\* zero gradient; for a gradient that is a rounding residue, of the order of
\* epsilon itself, a number strictly between 0 and learning_rate times its
\* sign. A step is the pair [lo, hi]: the amount lo when lo = hi, and
\* otherwise an amount strictly between lo and hi. tiny is the set of
\* networks whose gradient is a rounding residue.
AdamSteps(m, grads, tiny) ==
  LET whole == [n \in DOMAIN grads |-> m.optimizer.learning_rate * grads[n]]
  IN {[n \in DOMAIN grads |->
         IF n \in tiny /\ grads[n] # 0
         THEN [lo |-> IF whole[n] < 0 THEN whole[n] ELSE 0,
               hi |-> IF whole[n] < 0 THEN 0 ELSE whole[n]]
         ELSE [lo |-> whole[n], hi |-> whole[n]]]}

\* var.assign_sub(step) for the variable of network n of m: a step of a
\* known amount moves weights[n], any other step widens the slack around it
assign_sub(m, n, amount) ==
  IF amount.lo = amount.hi
  THEN [weight |-> m.weights[n] - amount.lo, slack |-> m.slack[n]]
  ELSE [weight |-> m.weights[n],
        slack |-> [lo |-> m.slack[n].lo - amount.hi,
                   hi |-> m.slack[n].hi - amount.lo]]

\* Variant of apply_gradients: the voting network is left out of the update.
apply_gradients_no_voting(m, grads, u) ==
  [m EXCEPT !.weights = [n \in DOMAIN m.weights |->
                           IF n = VotingNetwork THEN m.weights[n]
                           ELSE assign_sub(m, n, u[n]).weight],
            !.slack = [n \in DOMAIN m.slack |->
                         IF n = VotingNetwork THEN m.slack[n]
                         ELSE assign_sub(m, n, u[n]).slack],
            !.moments = [n \in DOMAIN m.moments |->
                           IF n = VotingNetwork THEN m.moments[n]
                           ELSE adam_moments(m, grads)[n]],
            !.applied = [n \in DOMAIN m.applied |->
                           IF n = VotingNetwork THEN m.applied[n]
                           ELSE m.applied[n] + 1],
            !.iterations = m.iterations + 1]

\* self.optimizer.apply_gradients(zip(grads, variables of every network in
\* optimize_networks)) taking the steps u: one update of every listed
\* variable and of its moment, and the optimizer's iteration counter
\* advances by one.
apply_gradients(m, grads, u) ==
  [m EXCEPT !.weights = [n \in DOMAIN m.weights |->
                           IF n \in DOMAIN grads
                           THEN assign_sub(m, n, u[n]).weight ELSE m.weights[n]],
            !.slack = [n \in DOMAIN m.slack |->
                         IF n \in DOMAIN grads
                         THEN assign_sub(m, n, u[n]).slack ELSE m.slack[n]],
            !.moments = adam_moments(m, grads),
            !.applied = [n \in DOMAIN m.applied |->
                           IF n \in DOMAIN grads
                           THEN m.applied[n] + 1 ELSE m.applied[n]],
            !.iterations = m.iterations + 1]

\* perform_training(batch, loss_type, ranking_penalty_weight): compute_loss
\* with inp_batch_type left at None, then tape.gradient and one
\* apply_gradients. The set of possible outcomes: the exception of
\* compute_loss (the model untouched), or loss_dict with the updated model.
perform_training(m, batch, loss_type, ranking_penalty_weight) ==
  LET r == compute_loss(m, batch, loss_type, ranking_penalty_weight, None)
  IN IF IsExc(r) THEN {[result |-> r, model |-> m, batch |-> batch]}
     ELSE UNION {
            {[result |-> r, model |-> apply_gradients(r.model, grads, u),
              batch |-> r.batch] :
               u \in AdamSteps(r.model, grads,
                               {n \in DOMAIN grads :
                                  rounding_residue(r.model, r, n)})} :
            grads \in GradientChoices(r.model, r)}


----------------------------------------------------------------------------
(* SpecModel: a model is constructed, the caller holds one batch sampled   *)
(* from the training data, and infer_negatives, measure_stats and          *)
(* perform_training are called on it.                                      *)

\* The training records: record i is feasible, infeasible by its flag,
\* feasible, infeasible by its area, and so on; the raw values vary with i.
TrainingRecord(i) ==
  [param |-> [k \in 1..NumKeys |->
                IF i % 4 = 1 \/ (k = 1 /\ i % 4 = 0)
                THEN ValueRangeOf(k)[1] ELSE ValueRangeOf(k)[k + 1]],
   area |-> IF i % 4 = 0 THEN AREA_THRESHOLD.num + 1
            ELSE AREA_THRESHOLD.num,
   infeasible |-> IF i % 4 = 2 THEN 1 ELSE 0,
   runtime |-> 2 * i + 1]

training_dataset == [i \in 1..NumTrainRecords |-> TrainingRecord(i)]

config_str ==
  [k \in 1..NumKeys |->
     [name |-> active_training_keys[k], value_range |-> ValueRangeOf(k)]]

\* train_problem of train_eval_offline for a batch_type
TrainProblem(batch_type) ==
  HardwareOptProblem(config_str, training_dataset,
                     [batch_size |-> BatchSize, batch_type |-> batch_type,
                      add_area_constraints |-> TRUE])

\* the batches the caller can hold: mixed and valid-only training batches
ModelBatches ==
  get_mixed_batch(TrainProblem("mixed"))
    \cup get_valid_only_batch(TrainProblem("valid"))

ExpertWeights == {0 - 600, 1, 600}

\* initial weights: base 1, the first expert from ExpertWeights, the other
\* experts 1, voting logit 0 or 1 (0 when there is a single expert)
InitialWeights(contextual, num_votes) ==
  LET nets == Range(optimize_networks(contextual, num_votes))
  IN {w \in [nets -> ExpertWeights \cup {0}] :
        /\ w[BaseNetwork] = 1
        /\ w[VotingNetwork] \in (IF num_votes = 1 THEN {0} ELSE {0, 1})
        /\ w[ExpertNetwork(1)] \in ExpertWeights
        /\ \A k \in 2..num_votes : w[ExpertNetwork(k)] = 1}

LossTypes == {"mse", "mse+rank"}

\* the num_inputs a model is constructed with: the input width of the
\* dataset, and a width that is one too large
ModelWidths ==
  {input_properties(after_get_input_splits(TrainProblem("mixed").dataset)),
   input_properties(after_get_input_splits(TrainProblem("mixed").dataset))
     + 1}

ModelInit ==
  /\ \E nv \in 1..MaxVotes, steps \in 0..MaxInferSteps, lr \in 1..2 :
       \E w0 \in InitialWeights(FALSE, nv), alpha \in {lr},
          beta \in {3 - lr}, ni \in ModelWidths :
         /\ model = PRIMETransformerModel(
                      ni, Adam(1, 0, 0), alpha, None, FALSE,
                      [num_votes |-> nv, num_gradient_steps |-> steps,
                       opt_lr |-> Div(lr, 1),
                       infeasible_alpha |-> Div(beta, 1),
                       input_splits |->
                         get_input_splits(TrainProblem("mixed").dataset)],
                      w0)
         /\ m_out = [call |-> "__init__", num_inputs |-> ni,
                     input_splits |->
                       get_input_splits(TrainProblem("mixed").dataset)]
  /\ m_batch \in ModelBatches
  /\ m_prev = NoOutcome
  \* no separate problem and no call of train_eval_offline
  /\ config = <<>>
  /\ data_file = <<>>
  /\ params_dict = [batch_type |-> "valid"]
  /\ problem = NoProblem
  /\ d_pc = "idle"
  /\ d_out = NoOutcome
  /\ args = NoOutcome
  /\ pc = "idle"
  /\ step = 0
  /\ train_problem = NoProblem
  /\ val_problem = NoProblem
  /\ save_dir = None
  /\ train_batch = NoOutcome
  /\ loss_dict = NoOutcome
  /\ summary = {}
  /\ saved = {}
  /\ raised = NoOutcome
  /\ r_input = <<>>
  /\ r_target = <<>>
  /\ r_context = None
  /\ r_out = NoOutcome

\* model.infer_negatives(m_batch)
CallInferNegatives ==
  /\ ~IsExc(model)
  /\ LET r == infer_negatives(model, m_batch)
     IN /\ model' = r.model
        /\ m_batch' = r.batch
        /\ m_out' = [call |-> "infer_negatives", result |-> r.temp_batch,
                     den |-> r.den, iterations |-> model.iterations]
        /\ m_prev' = IF m_out.call = "infer_negatives"
                     THEN m_out ELSE NoOutcome

\* model.measure_stats(m_batch, batch_type)
CallMeasureStats ==
  /\ ~IsExc(model)
  /\ \E bt \in BatchTypeObjects :
       LET r == measure_stats(model, m_batch, bt)
       IN /\ model' = IF IsExc(r) THEN model ELSE r.model
          /\ m_batch' = IF IsExc(r) THEN m_batch ELSE r.batch
          /\ m_out' = [call |-> "measure_stats", batch_type |-> bt,
                       loss_type |-> "mse+rank", ranking_penalty_weight |-> 0,
                       result |-> r, iterations |-> model.iterations]
          /\ m_prev' = NoOutcome

\* model.perform_training(m_batch, loss_type, ranking_penalty_weight)
CallPerformTraining ==
  /\ ~IsExc(model)
  /\ model.iterations < MaxTrainCalls
  /\ \E lt \in LossTypes, rpw \in 0..1 :
       \E r \in perform_training(model, m_batch, lt, rpw) :
         /\ model' = r.model
         /\ m_batch' = r.batch
         /\ m_out' = [call |-> "perform_training", batch_type |-> None,
                      loss_type |-> lt, ranking_penalty_weight |-> rpw,
                      result |-> r.result, iterations |-> model.iterations]
         /\ m_prev' = NoOutcome

ModelNext ==
  \/ CallInferNegatives
  \/ CallMeasureStats
  \/ CallPerformTraining

----------------------------------------------------------------------------
(* Properties of infer_negatives and compute_loss, checked on SpecModel     *)

\* the last call was infer_negatives
InferReturned ==
  "call" \in DOMAIN m_out /\ m_out.call = "infer_negatives"

\* the last call was measure_stats or perform_training and returned
LossReturned ==
  /\ "call" \in DOMAIN m_out
  /\ m_out.call \in {"measure_stats", "perform_training"}
  /\ ~IsExc(m_out.result)

\* C2: infer_negatives leaves the model and the batch it is given as they
\* were: across every call of infer_negatives, whatever the batch and the
\* number of ascent steps, the model (weights and optimizer state) and every
\* entry of the caller's batch are unchanged, and the result is a new batch
\* that holds the ascended design only.
C2_InferNegativesFrame ==
  [][ (("call" \in DOMAIN m_out') /\ m_out'.call = "infer_negatives")
        => /\ model' = model
           /\ m_batch' = m_batch
           /\ DOMAIN m_out'.result = {"design"} ]_vars

\* infer_negatives has moved the design it returns (numerators over
\* m_out.den) away from the design of the batch, which is still the sampled
\* one
C2_Witness ==
  /\ InferReturned
  /\ model.num_gradient_infer_steps >= 1
  /\ m_out.result.design # Scaled(m_batch.design, m_out.den)
  /\ m_batch \in ModelBatches

\* the numerator of the mean of the whole numbers v over LossDen(Len(v)),
\* written out
MeanNum(v) == SumSeq(v) * 10 * Len(v)

\* the numerator of the mean squared error of the fractions v over one
\* denominator d against the whole targets t, over LossDen(Len(v)) * d^2
MseNum(v, t) ==
  MeanNum([b \in DOMAIN v |->
             (v[b].num - t[b] * v[b].den) * (v[b].num - t[b] * v[b].den)])

\* the denominator of the predictions of the last call
PredVs == m_out.result.preds.model_pred[1].den

\* a numerator over d as a numerator over the denominator of the loss
\* values of the last call
OverResultDen(x, d) == x * (m_out.result.den \div d)

\* the last call computed the loss of a mixed batch with the invalid branch
MixedLossReturned ==
  /\ LossReturned
  /\ is_not_valid(m_out.batch_type)
  /\ "invalid_design" \in DOMAIN m_batch

\* the first three terms of the training loss of the last call: the error
\* on the valid batch only, the weighted ranking term (0 when loss_type is
\* 'mse') and the weighted cql term
FirstTerms ==
  OverResultDen(MseNum(m_out.result.preds.model_pred, m_batch.objective),
                LossDen(Len(m_batch.design)) * PredVs * PredVs)
    + m_out.ranking_penalty_weight
        * (IF m_out.loss_type = "mse" THEN 0
           ELSE m_out.result.loss_dict.avg_ranking_train_loss)
    + model.cql_alpha_value * m_out.result.loss_dict.cql_loss

\* C4 as stated: for every mixed batch the training loss is mse_loss +
\* ranking_penalty_weight * ranking loss + cql_alpha * cql_loss +
\* infeasible_alpha * mean(prediction on the invalid batch), with nothing
\* else applied to these terms.
C4_TrainLossSum ==
  MixedLossReturned =>
    m_out.result.train_loss =
      model.infeasible_alpha.den * FirstTerms
        + model.infeasible_alpha.num
            * OverResultDen(
                MeanNum(Nums(m_out.result.preds.model_pred_invalid)),
                LossDen(Len(m_batch.design)) * PredVs)

\* C4 amended: the infeasible term is infeasible_alpha times the mean
\* prediction on the invalid batch clipped to [-1000, 1e6]; the other terms
\* are as stated.
C4_TrainLossSumClipped ==
  MixedLossReturned =>
    m_out.result.train_loss =
      model.infeasible_alpha.den * FirstTerms
        + model.infeasible_alpha.num
            * OverResultDen(
                Clip(MeanNum(Nums(m_out.result.preds.model_pred_invalid)),
                     INFEASIBLE_MIN * LossDen(Len(m_batch.design)) * PredVs,
                     INFEASIBLE_MAX * LossDen(Len(m_batch.design)) * PredVs),
                LossDen(Len(m_batch.design)) * PredVs)

\* a loss of a mixed batch whose mean prediction on the invalid batch lies
\* below -1000 and whose error on the invalid batch is not zero
C4_Witness ==
  /\ MixedLossReturned
  /\ MeanNum(Nums(m_out.result.preds.model_pred_invalid))
       < INFEASIBLE_MIN * LossDen(Len(m_batch.design)) * PredVs
  /\ m_out.result.loss_dict.mse_loss_invalid > 0

\* cql_loss when prediction b on the negative batch (rows over den) is
\* replaced by the whole number v
CqlWith(negatives_pred, den, b, v) ==
  cql_loss_of([negatives_pred EXCEPT ![b] = Div(v * den * @.den, @.den)],
              den)

\* predictions far outside the clipping range
LargePredictions == {0 - 1000000, 0 - 4001, 4001, 1000000}

\* C5: in every loss computation cql_loss is the mean of the predictions on
\* the negative batch, each clipped to [-4000, 4000], clipped again to
\* [-4000, 1e6]; so -4000 <= cql_loss <= 4000, and replacing one prediction
\* by an arbitrarily large one moves cql_loss by at most 8000 / batch_size.
C5_CqlClipped ==
  LossReturned =>
    LET negatives_pred == m_out.result.preds.negatives_pred
        B == Len(negatives_pred)
        cql_loss == m_out.result.loss_dict.cql_loss
        den == m_out.result.negatives.den
        d == den * negatives_pred[1].den
    IN /\ cql_loss =
            OverResultDen(
              Clip(MeanNum([b \in 1..B |->
                              Clip(negatives_pred[b].num,
                                   (0 - 4000) * d, 4000 * d)]),
                   (0 - 4000) * LossDen(B) * d, 1000000 * LossDen(B) * d),
              LossDen(B) * d)
       /\ (0 - 4000) * m_out.result.den <= cql_loss
       /\ cql_loss <= 4000 * m_out.result.den
       /\ \A b \in 1..B : \A v \in LargePredictions :
            Abs(OverResultDen(CqlWith(negatives_pred, den, b, v),
                              LossDen(B) * d) - cql_loss) * B
              <= 8000 * m_out.result.den

\* a loss computation after at least one ascent step in which a raw
\* prediction on the negative batch exceeds 4000
C5_Witness ==
  /\ LossReturned
  /\ \E b \in DOMAIN m_out.result.preds.negatives_pred :
       m_out.result.preds.negatives_pred[b].num
         > 4000 * m_out.result.negatives.den
             * m_out.result.preds.negatives_pred[b].den
  /\ model.num_gradient_infer_steps >= 1

\* C6: with num_gradient_infer_steps = 0 infer_negatives returns the design
\* of its input batch element for element, and two successive calls on the
\* same batch with no update of the model in between return equal results.
C6_ZeroStepsIdentity ==
  (InferReturned /\ model.num_gradient_infer_steps = 0) =>
    /\ m_out.result.design = m_batch.design
    /\ (("call" \in DOMAIN m_prev) => m_prev.result = m_out.result)

\* two successive calls of infer_negatives with zero steps have returned
C6_Witness ==
  /\ InferReturned
  /\ model.num_gradient_infer_steps = 0
  /\ "call" \in DOMAIN m_prev
  /\ m_prev.call = "infer_negatives"
  /\ m_out.result.design = m_batch.design

\* one ascent step of example x (numerators over StepDen(m)) along the
\* gradient of its own prediction
PerExampleStep(m, x) ==
  Only({[j \in DOMAIN x |-> x[j] + m.opt_lr.num * g[j].num] :
        g \in {call_grad(m, x)}})

RECURSIVE PerExampleAscent(_, _, _)
\* `steps` ascent steps of example x, each along the gradient of the
\* prediction for x with respect to x
PerExampleAscent(m, x, steps) ==
  IF steps = 0 THEN x
  ELSE Only({PerExampleAscent(m, next, steps - 1) :
               next \in {PerExampleStep(m, x)}})

\* C7 as stated: infer_negatives returns a batch of the shape of its input
\* in which every example i is the result of num_gradient_infer_steps steps
\* x_i <- x_i + lr * d pred_i / d x_i, with no projection between steps.
C7_PerExampleAscent ==
  InferReturned =>
    /\ DOMAIN m_out.result.design = DOMAIN m_batch.design
    /\ \A b \in DOMAIN m_batch.design :
         m_out.result.design[b] =
           PerExampleAscent(model,
                            [j \in DOMAIN m_batch.design[b] |->
                               m_out.den * m_batch.design[b][j]],
                            model.num_gradient_infer_steps)

----------------------------------------------------------------------------
(* Spec: train_eval_offline, from its call to 'Finished Training' or to the *)
(* exception that ends it.                                                  *)

\* training_dict['num_gradient_steps'] = 20
NUM_GRADIENT_STEPS == 20
\* checkpoints are written when step % 5000 == 0
CHECKPOINT_FREQ == 5000

\* the validation data: the first two training records
validation_dataset == [i \in 1..2 |-> TrainingRecord(i)]

\* the arguments train_eval_offline is called with; ranking_penalty_weight,
\* cql_alpha and infeasible_alpha are 1, opt_lr is 1 or 2 and opt_betas (0, 0).
LoopArgs ==
  [config : {config_str},
   training_dataset : {training_dataset},
   validation_dataset : {validation_dataset},
   train_steps : 0..MaxTrainSteps,
   summary_freq : 1..2,
   eval_freq : 1..2,
   save_dir : {None, [path |-> "save_dir"]},
   loss_type : LossTypes,
   opt_lr : 1..2,
   opt_betas : {<<0, 0>>},
   ranking_penalty_weight : {1},
   batch_size : {BatchSize},
   batch_type : BatchTypes,
   num_votes : 1..MaxVotes,
   cql_alpha : {1},
   infeasible_alpha : {1}]

\* the weights of a freshly built model: base 1, the first expert 1 or -1,
\* the other experts 1, voting logit 0
FreshWeights(contextual, num_votes) ==
  {w \in InitialWeights(contextual, num_votes) :
     /\ w[VotingNetwork] = 0
     /\ w[ExpertNetwork(1)] = 1}
  \cup
  {[w EXCEPT ![ExpertNetwork(1)] = 0 - 1] :
     w \in {v \in InitialWeights(contextual, num_votes) :
              v[VotingNetwork] = 0 /\ v[ExpertNetwork(1)] = 1}}

\* valid_invalid_data_size(): the numbers of feasible and infeasible records
valid_invalid_data_size(ds) ==
  LET feasible == feasible_vector(ds, TRUE)
  IN <<SumFn(feasible, ds.top), ds.top - SumFn(feasible, ds.top)>>

\* training_dict as train_eval_offline fills it
training_dict(a, problem_) ==
  [training_type |-> a.batch_type,
   use_dropout |-> FALSE,
   infeasible_alpha |-> Div(a.infeasible_alpha, 1),
   input_splits |-> get_input_splits(problem_.dataset),
   num_votes |-> a.num_votes,
   infeasbile_multiplier |->
     Div(valid_invalid_data_size(problem_.dataset)[1],
         valid_invalid_data_size(problem_.dataset)[2] + 1),
   num_gradient_steps |-> NUM_GRADIENT_STEPS]

LoopInit ==
  /\ args \in LoopArgs
  /\ pc = "call"
  /\ step = 0
  /\ train_problem = NoProblem
  /\ val_problem = NoProblem
  /\ save_dir = None
  /\ train_batch = NoOutcome
  /\ loss_dict = NoOutcome
  /\ summary = {}
  /\ saved = {}
  /\ raised = NoOutcome
  \* no model yet, and no calls besides those of the loop
  /\ model = NoModel
  /\ m_batch = <<>>
  /\ m_out = NoOutcome
  /\ m_prev = NoOutcome
  /\ config = <<>>
  /\ data_file = <<>>
  /\ params_dict = [batch_type |-> "valid"]
  /\ problem = NoProblem
  /\ d_pc = "idle"
  /\ d_out = NoOutcome
  /\ r_input = <<>>
  /\ r_target = <<>>
  /\ r_context = None
  /\ r_out = NoOutcome

\* The function up to the loop: both problems, get_input_splits and
\* input_properties of the training dataset, the model, the summary writer.
Setup ==
  /\ pc = "call"
  /\ LET tp == HardwareOptProblem(
                 args.config, args.training_dataset,
                 [batch_size |-> args.batch_size,
                  batch_type |-> args.batch_type,
                  add_area_constraints |-> TRUE])
         vp == HardwareOptProblem(
                 args.config, args.validation_dataset,
                 [batch_size |-> args.batch_size,
                  add_area_constraints |-> TRUE,
                  batch_type |-> "valid"])
         ds == after_get_input_splits(tp.dataset)
     IN /\ train_problem' = [tp EXCEPT !.dataset = ds]
        /\ val_problem' = vp
        /\ \E w0 \in FreshWeights(FALSE, args.num_votes) :
             model' = PRIMETransformerModel(
                        input_properties(ds),
                        Adam(args.opt_lr, args.opt_betas[1],
                             args.opt_betas[2]),
                        args.cql_alpha, None, FALSE,
                        training_dict(args, tp), w0)
  /\ save_dir' = args.save_dir
  /\ pc' = "for"
  /\ UNCHANGED <<args, step, train_batch, loss_dict, summary, saved,
                 raised>>

\* for step in range(train_steps): the next step, or the end of the loop
\* and 'Finished Training'
For ==
  /\ pc = "for"
  /\ pc' = IF step < args.train_steps THEN "sample" ELSE "done"
  /\ UNCHANGED <<args, step, train_problem, val_problem, model, save_dir,
                 train_batch, loss_dict, summary, saved, raised>>

\* batch = train_problem.get_training_batch()
Sample ==
  /\ pc = "sample"
  /\ \E b \in get_training_batch(train_problem) :
       IF IsExc(b)
       THEN /\ raised' = b
            /\ pc' = "error"
            /\ train_batch' = train_batch
       ELSE /\ train_batch' = b
            /\ pc' = IF step = 0 THEN "build" ELSE "train"
            /\ raised' = raised
  /\ UNCHANGED <<args, step, train_problem, val_problem, model, save_dir,
                 loss_dict, summary, saved>>

\* if step == 0: _ = model.measure_stats(batch)
Build ==
  /\ pc = "build"
  /\ LET r == measure_stats(model, train_batch, None)
     IN IF IsExc(r)
        THEN /\ raised' = r
             /\ pc' = "error"
             /\ UNCHANGED <<model, train_batch>>
        ELSE /\ model' = r.model
             /\ train_batch' = r.batch
             /\ pc' = "train"
             /\ raised' = raised
  /\ UNCHANGED <<args, step, train_problem, val_problem, save_dir,
                 loss_dict, summary, saved>>

\* loss_dict = model.perform_training(batch, loss_type=loss_type,
\*                                     ranking_penalty_weight=...)
Train ==
  /\ pc = "train"
  /\ \E r \in perform_training(model, train_batch, args.loss_type,
                               args.ranking_penalty_weight) :
       IF IsExc(r.result)
       THEN /\ raised' = r.result
            /\ pc' = "error"
            /\ UNCHANGED <<model, train_batch, loss_dict>>
       ELSE /\ model' = r.model
            /\ train_batch' = r.batch
            /\ loss_dict' = r.result.loss_dict
            /\ pc' = "log"
            /\ raised' = raised
  /\ UNCHANGED <<args, step, train_problem, val_problem, save_dir,
                 summary, saved>>

\* what the logging block saves at step s
Saves(s) ==
  IF save_dir = None THEN {}
  ELSE (IF s = 0 THEN {<<"model", 0>>} ELSE {})
         \cup (IF s % CHECKPOINT_FREQ = 0 THEN {<<"ckpt", s>>} ELSE {})

\* tf.summary.scalar(prefix + key, d[key], step=s) for key in d
Scalars(prefix, d, s) == {<<prefix, key, s>> : key \in DOMAIN d}

\* Variant of Log: the train scalars are written at every step.
Log_every_step ==
  /\ pc = "log"
  /\ summary' = summary \cup Scalars("train", loss_dict, step)
  /\ saved' = saved \cup Saves(step)
  /\ pc' = "eval"
  /\ UNCHANGED <<args, step, train_problem, val_problem, model, save_dir,
                 train_batch, loss_dict, raised>>

\* if step % summary_freq == 0: the train scalars of every key of
\* loss_dict, and with a save_dir the model at step 0 and the weights every
\* CHECKPOINT_FREQ steps
Log ==
  /\ pc = "log"
  /\ IF step % args.summary_freq = 0
     THEN /\ summary' = summary \cup Scalars("train", loss_dict, step)
          /\ saved' = saved \cup Saves(step)
     ELSE UNCHANGED <<summary, saved>>
  /\ pc' = "eval"
  /\ UNCHANGED <<args, step, train_problem, val_problem, model, save_dir,
                 train_batch, loss_dict, raised>>

\* if step % eval_freq == 0: measure_stats on a validation batch and the
\* val scalars; then the step is complete. The locals batch and loss_dict
\* are not read again before the next step assigns them.
Eval ==
  /\ pc = "eval"
  /\ IF step % args.eval_freq = 0
     THEN \E val_batch \in get_training_batch(val_problem) :
            IF IsExc(val_batch)
            THEN /\ raised' = val_batch
                 /\ pc' = "error"
                 /\ UNCHANGED <<model, step, train_batch, loss_dict,
                                summary>>
            ELSE LET r == measure_stats(model, val_batch, ValidLiteral)
                 IN IF IsExc(r)
                    THEN /\ raised' = r
                         /\ pc' = "error"
                         /\ UNCHANGED <<model, step, train_batch, loss_dict,
                                        summary>>
                    ELSE /\ model' = r.model
                         /\ summary' =
                              summary \cup Scalars("val", r.loss_dict, step)
                         /\ step' = step + 1
                         /\ train_batch' = NoOutcome
                         /\ loss_dict' = NoOutcome
                         /\ pc' = "for"
                         /\ raised' = raised
     ELSE /\ step' = step + 1
          /\ train_batch' = NoOutcome
          /\ loss_dict' = NoOutcome
          /\ pc' = "for"
          /\ UNCHANGED <<model, summary, raised>>
  /\ UNCHANGED <<args, train_problem, val_problem, save_dir, saved>>

Next ==
  \/ Setup
  \/ For
  \/ Sample
  \/ Build
  \/ Train
  \/ Log
  \/ Eval

SpecData ==
  DataInit
    /\ [][DataNext /\ UNCHANGED <<model_vars, loop_vars, rank_vars>>]_vars

SpecModel ==
  ModelInit
    /\ [][ModelNext /\ UNCHANGED <<data_vars, loop_vars, rank_vars>>]_vars

Spec ==
  LoopInit
    /\ [][Next /\ UNCHANGED <<data_vars, m_batch, m_out, m_prev,
                            rank_vars>>]_vars

----------------------------------------------------------------------------
(* Properties of the training loop, checked on Spec                        *)

\* the model of train_eval_offline has been built
ModelBuilt == "weights" \in DOMAIN model

\* the sub-networks the optimizer has to cover
AllSubNetworks ==
  {BaseNetwork, VotingNetwork}
    \cup {ExpertNetwork(k) : k \in 1..model.num_votes}
    \cup (IF model.contextual THEN {EmbeddingNetwork} ELSE {})

\* the number of steps of the loop whose perform_training has returned
StepsTrained == IF pc \in {"log", "eval"} THEN step + 1 ELSE step

\* C1: over every run of the loop of train_eval_offline the number of
\* gradient applications equals the number of steps trained, so n after n
\* completed steps; the parameters change in perform_training only, where
\* one application covers the base network, every expert, the voting
\* network and, when contextual, the embedding network; sampling, the
\* step-0 and validation measure_stats calls and infer_negatives inside them
\* leave every parameter as it was.
C1_OneApplicationPerStep ==
  /\ [](ModelBuilt => model.iterations = StepsTrained)
  /\ [][ ModelBuilt =>
           IF pc = "train" /\ pc' = "log"
           THEN /\ model'.iterations = model.iterations + 1
                /\ Range(model.optimize_networks) = AllSubNetworks
                /\ \A n \in AllSubNetworks :
                     model'.applied[n] = model.applied[n] + 1
           ELSE /\ model'.weights = model.weights
                /\ model'.slack = model.slack
                /\ model'.applied = model.applied
                /\ model'.iterations = model.iterations ]_vars

\* a scalar with this prefix has been written for step s
Emitted(prefix, s) == \E e \in summary : e[1] = prefix /\ e[3] = s

\* a run of MaxTrainSteps steps with several experts has finished
C1_Witness ==
  /\ pc = "done"
  /\ step = MaxTrainSteps
  /\ model.iterations = MaxTrainSteps
  /\ model.num_votes > 1
  /\ Emitted("val", 0)

\* the batch of the current step comes from the valid-only or the all policy
NoInvalidKeys ==
  /\ "design" \in DOMAIN train_batch
  /\ "invalid_design" \notin DOMAIN train_batch
  /\ "invalid_objective" \notin DOMAIN train_batch

\* C3 as stated: for a batch without the invalid keys the step-0
\* measure_stats call and perform_training compute the loss without reading
\* them and add no infeasible term, and the step goes on to completion.
C3_ValidBatchStepCompletes ==
  NoInvalidKeys =>
    /\ pc # "error"
    /\ raised = NoOutcome
    /\ "y_value_infeasible" \notin DOMAIN loss_dict


----------------------------------------------------------------------------
(* The 'all' policy, checked on SpecData                                   *)

\* record index i (0-based) is among the indices some batch of
\* get_all_batch was drawn from; the scores tell the records apart
CanBeDrawnByAll(pr, i) ==
  \E b \in get_all_batch(pr) :
    /\ ~IsExc(b)
    /\ \E k \in DOMAIN b.objective : b.objective[k] = pr.dataset.score[i]

\* C11 as stated: under the 'all' policy, for a dataset of N >= 1 records
\* every record index 0..N-1 can be drawn by get_all_batch, and what a call
\* returns is a batch of records of the dataset.
C11_AllPolicyCoversEveryIndex ==
  (d_pc = "ready" /\ problem.batch_type = "all"
     /\ "_batch_size" \in DOMAIN problem /\ problem.dataset.top >= 1) =>
    /\ \A i \in 0..(problem.dataset.top - 1) : CanBeDrawnByAll(problem, i)
    /\ (d_out.call = "get_all_batch") =>
         /\ ~IsExc(d_out.result)
         /\ \A k \in DOMAIN d_out.result.objective :
              \E i \in 0..(problem.dataset.top - 1) :
                d_out.result.objective[k] = problem.dataset.score[i]


----------------------------------------------------------------------------
(* SpecLoad: datasets are loaded from field configurations of several      *)
(* shapes and from records that may hold raw values outside the declared   *)
(* ranges; the problem is then sampled as in SpecData.                     *)

\* every active field declared once, in training-key order
ConfigInOrder ==
  [k \in 1..NumKeys |->
     [name |-> active_training_keys[k], value_range |-> ValueRangeOf(k)]]

\* as ConfigInOrder, with the first value of every range listed again at
\* its end
ConfigRepeatedValue ==
  [k \in 1..NumKeys |->
     [name |-> active_training_keys[k],
      value_range |-> Append(ValueRangeOf(k), ValueRangeOf(k)[1])]]

\* as ConfigInOrder, followed by a second line for the first field
ConfigRedeclared ==
  Append(ConfigInOrder,
         [name |-> active_training_keys[1],
          value_range |-> Reverse(ValueRangeOf(1))])

\* "discrete:param_1:float64:true:1,2,4": one line, one field
ConfigSingleField ==
  <<[name |-> active_training_keys[1], value_range |-> <<1, 2, 4>>]>>

\* records with every active field; the first field may hold the raw value
\* 0, which no range declares
LoadRecordsAt(i) ==
  {[param |-> p, area |-> AREA_THRESHOLD.num, infeasible |-> f,
    runtime |-> 2 * i + 1] :
     p \in {q \in [1..NumKeys -> UNION {RawValues(k) : k \in 1..NumKeys}
                                   \cup {0}] :
              /\ q[1] \in RawValues(1) \cup {0}
              /\ \A k \in 2..NumKeys : q[k] \in RawValues(k)},
     f \in InfeasibleValues}

\* records with the field param_1 only: feasible ones of area 10, infeasible
\* ones of area 50
ScenarioRecordsAt(i) ==
  {[param |-> <<v>>, area |-> IF f = 0 THEN 10 ELSE 50, infeasible |-> f,
    runtime |-> 2 * i + 1] :
     v \in {1, 2, 4}, f \in InfeasibleValues}

LoadDataFiles == ProductOf([i \in 1..NumRecords |-> LoadRecordsAt(i)])

ScenarioDataFiles ==
  ProductOf([i \in 1..NumRecords |-> ScenarioRecordsAt(i)])

\* the (configuration, records) pairs a dataset is built from
LoadInputs ==
  ({ConfigInOrder, ConfigRepeatedValue, ConfigRedeclared, ConfigSingleField}
     \X LoadDataFiles)
  \cup ({ConfigSingleField} \X ScenarioDataFiles)
  \cup ({ConfigInOrder} \X {<<>>})

LoadInit ==
  /\ \E inp \in LoadInputs :
       /\ config = inp[1]
       /\ data_file = inp[2]
  /\ params_dict = [batch_size |-> BatchSize, batch_type |-> "mixed",
                    add_area_constraints |-> TRUE]
  /\ problem = NoProblem
  /\ d_pc = "init"
  /\ d_out = NoOutcome
  \* no model, no call of train_eval_offline, no ranking diagnostics
  /\ model = NoModel
  /\ m_batch = <<>>
  /\ m_out = NoOutcome
  /\ m_prev = NoOutcome
  /\ args = NoOutcome
  /\ pc = "idle"
  /\ step = 0
  /\ train_problem = NoProblem
  /\ val_problem = NoProblem
  /\ save_dir = None
  /\ train_batch = NoOutcome
  /\ loss_dict = NoOutcome
  /\ summary = {}
  /\ saved = {}
  /\ raised = NoOutcome
  /\ r_input = <<>>
  /\ r_target = <<>>
  /\ r_context = None
  /\ r_out = NoOutcome

SpecLoad ==
  LoadInit
    /\ [][DataNext /\ UNCHANGED <<model_vars, loop_vars, rank_vars>>]_vars

\* the configuration declares every active training key
DeclaresActiveKeys ==
  \A k \in DOMAIN active_training_keys :
    \E i \in DOMAIN config : config[i].name = active_training_keys[k]

\* the value range in force for a declared name: that of its last line
RangeInForce(name) ==
  config[Max({i \in DOMAIN config : config[i].name = name})].value_range

\* some record holds, for an active field, a raw value its range lacks
HasUnknownRawValue ==
  \E i \in DOMAIN data_file : \E k \in DOMAIN active_training_keys :
    \A j \in DOMAIN RangeInForce(active_training_keys[k]) :
      RangeInForce(active_training_keys[k])[j] # data_file[i].param[k]

\* C12: when a record holds for an active field a raw value that is not in
\* the field's declared value_range, construction fails with a KeyError and
\* no problem or dataset with that record exists afterwards; with every raw
\* value declared, construction does not fail on a lookup: it succeeds, or,
\* when there is no record at all, fails in get_score_function.
C12_UnknownRawValueFails ==
  (d_pc # "init" /\ DeclaresActiveKeys) =>
    IF HasUnknownRawValue
    THEN /\ d_pc = "error"
         /\ d_out.result = Exc("KeyError")
         /\ problem = NoProblem
    ELSE IF data_file = <<>>
    THEN d_pc = "error" /\ d_out.result = Exc("ValueError")
    ELSE d_pc = "ready"

\* construction has failed on a record with an undeclared raw value, every
\* field being declared
C12_Witness ==
  /\ d_pc = "error"
  /\ DeclaresActiveKeys
  /\ HasUnknownRawValue
  /\ \E i \in DOMAIN data_file : data_file[i].param[1] = 0

\* C13: for every parsed field and every raw value v of its value_range, the
\* recorded mapping sends v to an index i in 0..k-1, k the segment length
\* recorded for the field's line, with value_range[i] = v; distinct values of
\* a field get distinct indices.
C13_MappingRoundTrip ==
  d_pc # "init" =>
    \A c \in DOMAIN config :
      LET value_range == config[c].value_range
          k == Len(value_range)
      IN /\ \A v \in MappedValues(value_range) :
              /\ design_space_map(value_range, v) \in 0..(k - 1)
              /\ value_range[design_space_map(value_range, v) + 1] = v
         /\ \A v, w \in MappedValues(value_range) :
              v # w => design_space_map(value_range, v)
                         # design_space_map(value_range, w)
         /\ d_pc = "ready" =>
              /\ problem.dataset.segment_lengths[c - 1] = k
              /\ \A i \in 0..(problem.dataset.top - 1) :
                   \A f \in DOMAIN active_training_keys :
                     RangeInForce(active_training_keys[f])[
                       problem.dataset.param[f][i] + 1]
                       = data_file[i + 1].param[f]

\* a dataset has been loaded under a configuration whose ranges list a value
\* twice
C13_Witness ==
  /\ d_pc = "ready"
  /\ config = ConfigRepeatedValue
  /\ problem.dataset.top = NumRecords

\* the records and the configuration are those of the single-field scenario
SingleFieldScenario ==
  /\ config = ConfigSingleField
  /\ \A i \in DOMAIN data_file :
       /\ Len(data_file[i].param) = 1
       /\ data_file[i].area = (IF data_file[i].infeasible = 0 THEN 10 ELSE 50)
  /\ \E i \in DOMAIN data_file : data_file[i].infeasible = 0
  /\ \E i \in DOMAIN data_file : data_file[i].infeasible = 1

\* C15 as stated: with the single field param_1 of values 1, 2, 4 and
\* records of area 10 (feasible) and area 50 (infeasible), construction
\* succeeds, feasible_probs is nonzero on the area = 10 records only, and
\* both probability vectors sum to 1.
C15_SingleFieldDataset ==
  (d_pc # "init" /\ SingleFieldScenario) =>
    /\ d_pc = "ready"
    /\ \A i \in 0..(Len(data_file) - 1) :
         IsPositive(problem.feasible_probs[i]) <=> data_file[i + 1].area = 10
    /\ SumsToOne(problem.feasible_probs, Len(data_file))
    /\ SumsToOne(problem.infeasible_probs, Len(data_file))

----------------------------------------------------------------------------
(* Properties of model construction and of the forward pass (SpecModel)    *)

\* the model has just been constructed, or its construction has failed
ModelConstructed == m_out.call = "__init__"

\* for every configuration and data file that load, each row _get_batch
\* builds is input_properties wide
LoadedWidthsAgree ==
  \A inp \in LoadInputs :
    LET other == PRIMEDataset(inp[1], inp[2])
    IN ~IsExc(other) =>
         \A i \in 0..(other.top - 1) :
           Len(design_row(other, i))
             = input_properties(after_get_input_splits(other))

\* C14: the segment lengths get_input_splits returns add up to the
\* input_properties read after that call (as train_eval_offline reads it),
\* which is the width of the rows the dataset produces,
\* and constructing a PRIMETransformerModel whose num_inputs differs from
\* the sum of input_splits fails in the constructor, while a matching width
\* gives a model.
C14_WidthMatchesSplits ==
  ModelConstructed =>
    LET ds == TrainProblem("mixed").dataset
    IN /\ SumSeq(get_input_splits(ds))
            = input_properties(after_get_input_splits(ds))
       /\ \A b \in DOMAIN m_batch.design :
            Len(m_batch.design[b]) = SumSeq(m_out.input_splits)
       /\ LoadedWidthsAgree
       /\ (m_out.num_inputs # SumSeq(m_out.input_splits)) <=> IsExc(model)
       /\ IsExc(model) => model = Exc("ValueError")

\* the construction of a model with a num_inputs one larger than the sum of
\* its input_splits has failed
C14_Witness ==
  /\ ModelConstructed
  /\ m_out.num_inputs = SumSeq(m_out.input_splits) + 1
  /\ IsExc(model)

\* the smallest and the largest entry of a non-empty sequence
MinOf(v) == CHOOSE a \in Range(v) : \A b \in Range(v) : a <= b
MaxOf(v) == CHOOSE a \in Range(v) : \A b \in Range(v) : b <= a

\* sum over the experts of vote_prob numerator times expert output
VoteDot(m, x) ==
  SumSeq([k \in 1..m.num_votes |->
            vote_prob(m, k).num * all_outputs(m, x)[k]])

\* C17: for every example of the batch the vote probabilities of the
\* num_votes experts are non-negative and sum to 1, the prediction is the
\* sum over the experts of vote probability times expert output, and it
\* lies between the smallest and the largest expert output.
C17_ConvexVote ==
  ("weights" \in DOMAIN model) =>
    \A b \in DOMAIN m_batch.design :
      LET x == m_batch.design[b]
          den == vote_prob(model, 1).den
      IN /\ \A k \in 1..model.num_votes :
              /\ vote_prob(model, k).den = den
              /\ den > 0
              /\ vote_prob(model, k).num >= 0
         /\ SumSeq([k \in 1..model.num_votes |->
                      vote_prob(model, k).num]) = den
         /\ call(model, x).den > 0
         /\ call(model, x).num * den = VoteDot(model, x) * call(model, x).den
         /\ MinOf(all_outputs(model, x)) * call(model, x).den
              <= call(model, x).num
         /\ call(model, x).num
              <= MaxOf(all_outputs(model, x)) * call(model, x).den

\* the forward passes of measure_stats on a model with several experts
\* whose outputs differ and whose vote probabilities are not equal
C17_Witness ==
  /\ "weights" \in DOMAIN model
  /\ model.num_votes > 1
  /\ m_out.call = "measure_stats"
  /\ ~IsExc(m_out.result)
  /\ vote_prob(model, 1).num # vote_prob(model, 2).num
  /\ \E b \in DOMAIN m_batch.design :
       MinOf(all_outputs(model, m_batch.design[b]))
         < MaxOf(all_outputs(model, m_batch.design[b]))

----------------------------------------------------------------------------
(* Ranking diagnostics: ranking_loss and kendall_correlation (SpecRank)    *)

\* the largest batch the diagnostics are applied to
MaxRankLen == 3
\* the values a column of the batch can hold
RankValues == 0..2

RankColumns(n) == [1..n -> RankValues]

RankInit ==
  /\ \E n \in 1..MaxRankLen :
       /\ r_input \in RankColumns(n)
       /\ r_target \in RankColumns(n)
  /\ r_context = None
  /\ r_out = NoOutcome
  \* no dataset, no model, no call of train_eval_offline
  /\ config = <<>>
  /\ data_file = <<>>
  /\ params_dict = [batch_type |-> "valid"]
  /\ problem = NoProblem
  /\ d_pc = "idle"
  /\ d_out = NoOutcome
  /\ model = NoModel
  /\ m_batch = <<>>
  /\ m_out = NoOutcome
  /\ m_prev = NoOutcome
  /\ args = NoOutcome
  /\ pc = "idle"
  /\ step = 0
  /\ train_problem = NoProblem
  /\ val_problem = NoProblem
  /\ save_dir = None
  /\ train_batch = NoOutcome
  /\ loss_dict = NoOutcome
  /\ summary = {}
  /\ saved = {}
  /\ raised = NoOutcome

\* avg_ranking_loss = ranking_loss(model_pred, objective)
CallRankingLoss ==
  /\ r_out = NoOutcome
  /\ r_out' = [call |-> "ranking_loss",
               value |-> ranking_loss(r_input, r_target)]
  /\ UNCHANGED <<r_input, r_target, r_context>>

\* avg_kendall_loss = kendall_correlation(model_pred, objective)
CallKendallCorrelation ==
  /\ r_out = NoOutcome
  /\ r_out' = [call |-> "kendall_correlation",
               value |-> kendall_correlation(r_input, r_target)]
  /\ UNCHANGED <<r_input, r_target, r_context>>

RankNext ==
  \/ CallRankingLoss
  \/ CallKendallCorrelation

SpecRank ==
  RankInit
    /\ [][RankNext /\ UNCHANGED <<data_vars, model_vars, loop_vars>>]_vars

\* the target column is sorted ascending and the input equals the target
SortedAndEqual ==
  /\ r_input = r_target
  /\ \A p \in 1..(Len(r_target) - 1) : r_target[p] <= r_target[p + 1]

\* the fraction p is exactly 1
IsOne(p) == p.den # 0 /\ p.num = p.den

\* cov / (std_target * std_input) is 1: the covariance is positive and its
\* square is the product of the variances
PearsonIsOne(r) ==
  /\ ~IsExc(r)
  /\ r.cov > 0
  /\ r.cov * r.cov = r.var_target * r.var_input

\* C16 as stated: for any batch whose target is sorted ascending and whose
\* input equals the target, kendall_correlation returns exactly 1 and
\* ranking_loss returns 1.
C16_SortedGivesOne ==
  (SortedAndEqual /\ r_out # NoOutcome) =>
    /\ r_out.call = "kendall_correlation" => IsOne(r_out.value)
    /\ r_out.call = "ranking_loss" => PearsonIsOne(r_out.value)

\* C16: for any batch of at least two examples whose target is sorted
\* ascending and whose input equals the target, kendall_correlation returns
\* exactly 1 and ranking_loss returns 1.
C16_SortedGivesOneFromTwo ==
  (SortedAndEqual /\ r_out # NoOutcome /\ Len(r_target) >= 2) =>
    /\ r_out.call = "kendall_correlation" => IsOne(r_out.value)
    /\ r_out.call = "ranking_loss" => PearsonIsOne(r_out.value)

\* kendall_correlation has returned 1 for a sorted target of three examples
\* with a repeated value and an input equal to it
C16_Witness ==
  /\ SortedAndEqual
  /\ Len(r_target) = 3
  /\ r_target[1] = r_target[2]
  /\ r_target[2] < r_target[3]
  /\ r_out # NoOutcome
  /\ r_out.call = "kendall_correlation"
  /\ IsOne(r_out.value)

----------------------------------------------------------------------------
(* The schedule of the training loop, checked on Spec                      *)

\* C18 as stated: the loop runs its train_steps steps and reaches the end
\* of train_eval_offline ('Finished Training'); a run that has ended has
\* ended there, after exactly train_steps steps.
C18_RunsAllStepsToDone ==
  /\ pc # "error"
  /\ pc = "done" => step = args.train_steps
  /\ step <= args.train_steps

\* the keys of the scalars written with this prefix for step s
EmittedKeysIn(written, prefix, s) ==
  {e[2] : e \in {d \in written : d[1] = prefix /\ d[3] = s}}

EmittedKeys(prefix, s) == EmittedKeysIn(summary, prefix, s)

\* the steps whose training step and logging block have both run
LoggedSteps == 0..(step - 1) \cup (IF pc = "eval" THEN {step} ELSE {})

\* the steps whose evaluation block has run
EvaluatedSteps == 0..(step - 1)

\* the scalars written so far follow the two frequencies
C19_Schedule ==
  (pc \notin {"call", "error"}) =>
    /\ \A s \in 0..MaxTrainSteps :
         /\ Emitted("train", s)
              <=> (s \in LoggedSteps /\ s % args.summary_freq = 0)
         /\ Emitted("val", s)
              <=> (s \in EvaluatedSteps /\ s % args.eval_freq = 0)
         /\ "y_value_infeasible" \notin EmittedKeys("val", s)
    /\ (pc = "eval" /\ step % args.summary_freq = 0)
         => EmittedKeys("train", step) = DOMAIN loss_dict
    /\ val_problem.get_training_batch = "get_valid_only_batch"
    /\ pc = "eval" => model.iterations = step + 1

\* C19: the train scalars of every key of loss_dict are written at step s
\* exactly when s is a multiple of summary_freq and the validation scalars
\* exactly when s is a multiple of eval_freq; the validation batch comes
\* from the valid-only policy whatever the training batch_type is (its loss
\* has no infeasible term); the evaluation runs after the update of that
\* step and changes neither the weights nor the optimizer's counter.
C19_LogAndEvalSchedule ==
  /\ []C19_Schedule
  /\ [][pc = "eval" =>
          /\ model'.weights = model.weights
          /\ model'.slack = model.slack
          /\ model'.iterations = model.iterations
          /\ (pc' = "for" /\ step % args.eval_freq = 0) =>
               \E val_batch \in get_valid_only_batch(val_problem) :
                 /\ ~IsExc(val_batch)
                 /\ EmittedKeysIn(summary', "val", step) =
                      DOMAIN measure_stats(model, val_batch,
                                           ValidLiteral).loss_dict]_vars

\* a run of two steps with summary_freq = eval_freq = 2 has finished: step
\* 0 was logged and evaluated, step 1 was neither
C19_Witness ==
  /\ pc = "done"
  /\ step = 2
  /\ args.summary_freq = 2
  /\ args.eval_freq = 2
  /\ args.batch_type = "mixed"
  /\ Emitted("train", 0)
  /\ Emitted("val", 0)
  /\ ~Emitted("train", 1)
  /\ ~Emitted("val", 1)
  /\ model.iterations = 2

----------------------------------------------------------------------------
(* SpecLog: train_eval_offline from its call, for runs of one step and for *)
(* runs long enough to pass the first later multiple of the checkpoint     *)
(* interval.                                                               *)

\* the calls of one step
ShortLogArgs ==
  [config : {config_str},
   training_dataset : {training_dataset},
   validation_dataset : {validation_dataset},
   train_steps : {1},
   summary_freq : {1, 3},
   eval_freq : {1, 3},
   save_dir : {None, [path |-> "save_dir"]},
   loss_type : LossTypes,
   opt_lr : {1},
   opt_betas : {<<0, 0>>},
   ranking_penalty_weight : {1},
   batch_size : {BatchSize},
   batch_type : BatchTypes,
   num_votes : {1},
   cql_alpha : {1},
   infeasible_alpha : {1}]

\* the calls of CHECKPOINT_FREQ + 1 steps, with a save_dir: the training
\* data are one feasible and one infeasible record, summary_freq divides
\* CHECKPOINT_FREQ or does not
LongLogArgs ==
  [config : {config_str},
   training_dataset : {validation_dataset},
   validation_dataset : {validation_dataset},
   train_steps : {CHECKPOINT_FREQ + 1},
   summary_freq : {2500, 3000},
   eval_freq : {3000},
   save_dir : {[path |-> "save_dir"]},
   loss_type : {"mse"},
   opt_lr : {1},
   opt_betas : {<<0, 0>>},
   ranking_penalty_weight : {1},
   batch_size : {BatchSize},
   batch_type : {"mixed"},
   num_votes : {1},
   cql_alpha : {1},
   infeasible_alpha : {1}]

LogArgs == ShortLogArgs \cup LongLogArgs

\* every run starts at the call
LogInit ==
  /\ args \in LogArgs
  /\ pc = "call"
  /\ step = 0
  /\ train_problem = NoProblem
  /\ val_problem = NoProblem
  /\ save_dir = None
  /\ train_batch = NoOutcome
  /\ loss_dict = NoOutcome
  /\ summary = {}
  /\ saved = {}
  /\ raised = NoOutcome
  \* no model yet, and no calls besides those of the loop
  /\ model = NoModel
  /\ m_batch = <<>>
  /\ m_out = NoOutcome
  /\ m_prev = NoOutcome
  /\ config = <<>>
  /\ data_file = <<>>
  /\ params_dict = [batch_type |-> "valid"]
  /\ problem = NoProblem
  /\ d_pc = "idle"
  /\ d_out = NoOutcome
  /\ r_input = <<>>
  /\ r_target = <<>>
  /\ r_context = None
  /\ r_out = NoOutcome

SpecLog ==
  LogInit
    /\ [][Next /\ UNCHANGED <<data_vars, m_batch, m_out, m_prev,
                            rank_vars>>]_vars

\* the logging block of step s has run
LogBlockDone(s) == s < step \/ (s = step /\ pc = "eval")

\* C20 as stated: with a save_dir, for every summary_freq, the model is
\* saved at step 0 and at no other step, and ckpt-s is saved at every later
\* step s that is a multiple of CHECKPOINT_FREQ; without a save_dir nothing
\* is saved.
C20_SnapshotSchedule ==
  /\ (pc # "call" /\ save_dir = None) => saved = {}
  /\ (pc # "call" /\ save_dir # None) =>
       /\ \A e \in saved : e[1] = "model" => e[2] = 0
       /\ LogBlockDone(0) => <<"model", 0>> \in saved
       /\ LogBlockDone(CHECKPOINT_FREQ) =>
            <<"ckpt", CHECKPOINT_FREQ>> \in saved

----------------------------------------------------------------------------
(* Absent keys of params_dict, checked on SpecData                         *)

\* C21 as stated: a problem built from a params_dict without 'batch_size'
\* falls back to the default without an error, and every sampling policy
\* returns a batch of DEFAULT_BATCH_SIZE rows.
C21_AbsentBatchSizeUsesDefault ==
  ("batch_size" \notin DOMAIN params_dict /\ d_pc = "ready") =>
    /\ problem.batch_size = DEFAULT_BATCH_SIZE
    /\ d_out.call \in SamplingCalls =>
         /\ ~IsExc(d_out.result)
         /\ Len(d_out.result.design) = DEFAULT_BATCH_SIZE

----------------------------------------------------------------------------
(* SpecSampler: a model constructed with or without an external           *)
(* negative_sampler, and the calls of SpecModel on it.                     *)

\* the candidate designs a sampler holds: one row, or BatchSize rows, of
\* encoded training records
SamplerDesigns ==
  LET ds == TrainProblem("mixed").dataset
      rows == {design_row(ds, i) : i \in 0..(ds.top - 1)}
  IN {<<r>> : r \in rows} \cup {[b \in 1..BatchSize |-> r] : r \in rows}

\* the external samplers, and None for the built-in infer_negatives
Samplers ==
  {None} \cup [designs : SamplerDesigns, differentiable : BOOLEAN]

SamplerInit ==
  /\ \E nv \in 1..MaxVotes, sampler \in Samplers :
       \E w0 \in FreshWeights(FALSE, nv) :
         model = PRIMETransformerModel(
                   input_properties(after_get_input_splits(
                     TrainProblem("mixed").dataset)),
                   Adam(1, 0, 0), 1, sampler, FALSE,
                   [num_votes |-> nv, num_gradient_steps |-> 1,
                    opt_lr |-> Div(1, 1), infeasible_alpha |-> Div(1, 1),
                    input_splits |->
                      get_input_splits(TrainProblem("mixed").dataset)],
                   w0)
  /\ m_out = [call |-> "__init__",
              num_inputs |-> input_properties(after_get_input_splits(
                     TrainProblem("mixed").dataset)),
              input_splits |->
                get_input_splits(TrainProblem("mixed").dataset)]
  /\ m_batch \in ModelBatches
  /\ m_prev = NoOutcome
  \* no separate problem and no call of train_eval_offline
  /\ config = <<>>
  /\ data_file = <<>>
  /\ params_dict = [batch_type |-> "valid"]
  /\ problem = NoProblem
  /\ d_pc = "idle"
  /\ d_out = NoOutcome
  /\ args = NoOutcome
  /\ pc = "idle"
  /\ step = 0
  /\ train_problem = NoProblem
  /\ val_problem = NoProblem
  /\ save_dir = None
  /\ train_batch = NoOutcome
  /\ loss_dict = NoOutcome
  /\ summary = {}
  /\ saved = {}
  /\ raised = NoOutcome
  /\ r_input = <<>>
  /\ r_target = <<>>
  /\ r_context = None
  /\ r_out = NoOutcome

SpecSampler ==
  SamplerInit
    /\ [][ModelNext /\ UNCHANGED <<data_vars, loop_vars, rank_vars>>]_vars

\* C22 as stated: a plugged-in negative_sampler is handed the current model
\* and the batch of the step, and the negative batch it returns has the
\* shape of that batch.
C22_SamplerGetsModelAndBatch ==
  (LossReturned /\ model.negative_sampler # None) =>
    /\ {"model", "batch"} \subseteq m_out.result.negatives.arguments
    /\ Len(m_out.result.negatives.design) = Len(m_batch.design)
    /\ \A b \in DOMAIN m_out.result.negatives.design :
         Len(m_out.result.negatives.design[b]) = Len(m_batch.design[1])

\* C26 as stated: on every path, with infer_negatives and with a plugged-in
\* negative_sampler, the loss that perform_training differentiates depends
\* on the watched variables through the forward passes only, never through
\* the generation of the negative batch.
C26_NegativesOffTape ==
  (m_out.call = "perform_training" /\ ~IsExc(m_out.result)) =>
    "negatives_batch" \notin m_out.result.tape_paths

----------------------------------------------------------------------------
(* The trainable ranking term, checked on SpecModel                        *)

\* C23 as stated: with loss_type 'mse+rank' the ranking term of
\* compute_loss is the mean over the ordered pairs (i, j) of the batch of
\* the cross-entropy with label 1 on the logit sign(y_i - y_j) * (f_i - f_j),
\* y the objective and f the prediction: the sign is taken of the true
\* difference and the predicted difference enters unsigned. Stated for the
\* calls whose predictions are whole numbers, where the cross-entropy is
\* tabulated.
C23_RankingTermSignOfTruth ==
  (/\ LossReturned
   /\ m_out.loss_type = "mse+rank"
   /\ \A b \in DOMAIN m_out.result.preds.model_pred :
        m_out.result.preds.model_pred[b].num % PredVs = 0) =>
    m_out.result.loss_dict.avg_ranking_train_loss
        * LossDen(Len(m_batch.objective)) =
      m_out.result.den
        * SumPairs(m_batch.objective,
                   [b \in DOMAIN m_out.result.preds.model_pred |->
                      m_out.result.preds.model_pred[b].num \div PredVs],
                   Len(m_batch.objective),
                   Len(m_batch.objective) * Len(m_batch.objective))

----------------------------------------------------------------------------
(* SpecContext: ranking_loss, ranking_trainable_loss and                   *)
(* kendall_correlation with a context column.                              *)

\* the length of the batches with a context column
ContextLen == 4
\* the context ids a batch can hold
ContextValues == 0..2
\* the predictions of a batch with a context column
ContextInputs == 0..1

RECURSIVE UniqueOf(_)
\* the y of tf.unique: the distinct values of x in order of first appearance
UniqueOf(x) ==
  IF x = <<>> THEN <<>>
  ELSE LET init == UniqueOf(SubSeq(x, 1, Len(x) - 1))
       IN IF x[Len(x)] \in Range(init) THEN init
          ELSE Append(init, x[Len(x)])

\* tf.unique(x): y as above, and idx with y[idx[p]] = x[p] (0-based)
tf_unique(x) ==
  [y |-> UniqueOf(x),
   idx |-> [p \in DOMAIN x |->
              (CHOOSE u \in DOMAIN UniqueOf(x) : UniqueOf(x)[u] = x[p]) - 1]]

RECURSIVE Where(_, _)
\* tf.squeeze(tf.where(tf.equal(indices, value))): the positions of indices
\* that hold value, ascending (1-based here)
Where(indices, value) ==
  IF indices = <<>> THEN <<>>
  ELSE LET init == Where(SubSeq(indices, 1, Len(indices) - 1), value)
       IN IF indices[Len(indices)] = value
          THEN Append(init, Len(indices)) ELSE init

\* locations_idx of the group processed for unique_contexts[idx]: the
\* positions whose entry of indices equals curr_context, the context value
locations_idx(context, idx) ==
  Where(tf_unique(context).idx, tf_unique(context).y[idx])

\* the positions whose context is unique_contexts[idx]
locations_of_context(context, idx) ==
  Where(context, tf_unique(context).y[idx])

\* tf.gather(v, indices = locs)
Gather(v, locs) == [p \in DOMAIN locs |-> v[locs[p]]]

\* the groups the loop over unique_contexts processes
ContextGroups(context) ==
  [idx \in DOMAIN tf_unique(context).y |-> locations_idx(context, idx)]

\* ranking_loss on one group: the Pearson correlation of the ranks as a
\* fraction. Both rank vectors are permutations of 0..n-1, so the product
\* of the standard deviations is the variance of either. One position
\* gathers a tensor without axes, which argsort refuses; no position gives
\* 0 / 0.
ranking_loss_group(input_tmp, target_tmp) ==
  LET r == ranking_loss(input_tmp, target_tmp)
  IN IF IsExc(r) THEN r ELSE Div(r.cov, r.var_target)

\* ranking_trainable_loss on one group: the mean cross-entropy over its
\* pairs (in tenths). expand_dims(., 1) refuses the tensor without axes
\* gathered from one position.
ranking_trainable_loss_group(input_tmp, target_tmp) ==
  IF Len(input_tmp) = 1 THEN Exc("InvalidArgumentError")
  ELSE Div(ranking_trainable_loss(input_tmp, target_tmp),
           10 * Len(input_tmp) * Len(input_tmp))

\* kendall_correlation on one group: 2 * ratio - 1 of the group (the final
\* 2 * mean(ratio) - 1 is the mean of these).
kendall_correlation_group(input_tmp, target_tmp) ==
  IF Len(input_tmp) = 1 THEN Exc("InvalidArgumentError")
  ELSE kendall_correlation(input_tmp, target_tmp)

RECURSIVE ProdDen(_)
ProdDen(fs) == IF fs = <<>> THEN 1 ELSE Head(fs).den * ProdDen(Tail(fs))

\* tf.reduce_mean of a list of fractions; NaN when one of them is
reduce_mean_list(fs) ==
  LET D == ProdDen(fs)
  IN IF D = 0 THEN Div(0, 0)
     ELSE Div(SumSeq([g \in DOMAIN fs |-> fs[g].num * (D \div fs[g].den)]),
              Len(fs) * D)

\* the exception of the first group that raises one, if any
FirstException(all_corr) ==
  LET raising == {g \in DOMAIN all_corr : IsExc(all_corr[g])}
  IN IF raising = {} THEN NoOutcome
     ELSE all_corr[CHOOSE g \in raising : \A h \in raising : g <= h]

\* Variant of ranking_loss_context: the mean of the accumulated list.
ranking_loss_context_mean(input, target, context) ==
  LET groups == ContextGroups(context)
      all_corr == [idx \in DOMAIN groups |->
                     ranking_loss_group(Gather(input, groups[idx]),
                                        Gather(target, groups[idx]))]
  IN [groups |-> groups, all_corr |-> all_corr,
      value |-> IF FirstException(all_corr) # NoOutcome
                THEN FirstException(all_corr)
                ELSE reduce_mean_list(all_corr)]

\* ranking_loss with a context: all_corr collects the value of every group,
\* and the value returned is tf.reduce_mean(pearson_corr), where
\* pearson_corr is the value of the last group.
ranking_loss_context(input, target, context) ==
  LET groups == ContextGroups(context)
      all_corr == [idx \in DOMAIN groups |->
                     ranking_loss_group(Gather(input, groups[idx]),
                                        Gather(target, groups[idx]))]
  IN [groups |-> groups, all_corr |-> all_corr,
      value |-> IF FirstException(all_corr) # NoOutcome
                THEN FirstException(all_corr)
                ELSE all_corr[Len(all_corr)]]

\* ranking_trainable_loss with a context: tf.reduce_mean(all_corr)
ranking_trainable_loss_context(input, target, context) ==
  LET groups == ContextGroups(context)
      all_corr == [idx \in DOMAIN groups |->
                     ranking_trainable_loss_group(
                       Gather(input, groups[idx]),
                       Gather(target, groups[idx]))]
  IN [groups |-> groups, all_corr |-> all_corr,
      value |-> IF FirstException(all_corr) # NoOutcome
                THEN FirstException(all_corr)
                ELSE reduce_mean_list(all_corr)]

\* kendall_correlation with a context: 2 * tf.reduce_mean(all_corr) - 1
kendall_correlation_context(input, target, context) ==
  LET groups == ContextGroups(context)
      all_corr == [idx \in DOMAIN groups |->
                     kendall_correlation_group(Gather(input, groups[idx]),
                                               Gather(target, groups[idx]))]
  IN [groups |-> groups, all_corr |-> all_corr,
      value |-> IF FirstException(all_corr) # NoOutcome
                THEN FirstException(all_corr)
                ELSE reduce_mean_list(all_corr)]

\* a batch of ContextLen examples: predictions, the objectives 1..ContextLen
\* and a context id per example
ContextInit ==
  /\ r_input \in [1..ContextLen -> ContextInputs]
  /\ r_target = [p \in 1..ContextLen |-> p]
  /\ r_context \in [1..ContextLen -> ContextValues]
  /\ r_out = NoOutcome
  \* no dataset, no model, no call of train_eval_offline
  /\ config = <<>>
  /\ data_file = <<>>
  /\ params_dict = [batch_type |-> "valid"]
  /\ problem = NoProblem
  /\ d_pc = "idle"
  /\ d_out = NoOutcome
  /\ model = NoModel
  /\ m_batch = <<>>
  /\ m_out = NoOutcome
  /\ m_prev = NoOutcome
  /\ args = NoOutcome
  /\ pc = "idle"
  /\ step = 0
  /\ train_problem = NoProblem
  /\ val_problem = NoProblem
  /\ save_dir = None
  /\ train_batch = NoOutcome
  /\ loss_dict = NoOutcome
  /\ summary = {}
  /\ saved = {}
  /\ raised = NoOutcome

\* ranking_loss(model_pred, objective, context=raw_context)
CallRankingLossContext ==
  /\ r_out = NoOutcome
  /\ r_out' = [call |-> "ranking_loss"]
                @@ ranking_loss_context(r_input, r_target, r_context)
  /\ UNCHANGED <<r_input, r_target, r_context>>

\* ranking_trainable_loss(model_pred, objective, context=raw_context)
CallRankingTrainableLossContext ==
  /\ r_out = NoOutcome
  /\ r_out' = [call |-> "ranking_trainable_loss"]
                @@ ranking_trainable_loss_context(r_input, r_target,
                                                  r_context)
  /\ UNCHANGED <<r_input, r_target, r_context>>

\* kendall_correlation(model_pred, objective, context=raw_context)
CallKendallCorrelationContext ==
  /\ r_out = NoOutcome
  /\ r_out' = [call |-> "kendall_correlation"]
                @@ kendall_correlation_context(r_input, r_target, r_context)
  /\ UNCHANGED <<r_input, r_target, r_context>>

ContextNext ==
  \/ CallRankingLossContext
  \/ CallRankingTrainableLossContext
  \/ CallKendallCorrelationContext

SpecContext ==
  ContextInit
    /\ [][ContextNext /\ UNCHANGED <<data_vars, model_vars, loop_vars>>]_vars

\* two fractions are the same number
SameValue(a, b) == a.den # 0 /\ b.den # 0 /\ a.num * b.den = b.num * a.den

\* C24 as stated: with a context, each of the three functions returns the
\* mean of the values of all the groups it processed, not the value of the
\* last group.
C24_MeanOverGroups ==
  (r_out # NoOutcome /\ ~IsExc(r_out.value)
     /\ IsFinite(reduce_mean_list(r_out.all_corr))) =>
    SameValue(r_out.value, reduce_mean_list(r_out.all_corr))

\* C25 as stated: for any context ids, the group processed for the idx-th
\* distinct context consists of exactly the examples with that context, so
\* every example is in exactly one group and no group is empty.
C25_GroupsFollowContext ==
  r_out # NoOutcome =>
    \A idx \in DOMAIN r_out.groups :
      /\ r_out.groups[idx] = locations_of_context(r_context, idx)
      /\ r_out.groups[idx] # <<>>

----------------------------------------------------------------------------
(* The layout of the batch rows, checked on SpecData                       *)

RECURSIVE tf_split(_, _)
\* tf.split(x, num_or_size_splits = sizes, axis = -1) of one row: the
\* consecutive segments of x of the given sizes
tf_split(x, sizes) ==
  IF sizes = <<>> THEN <<>>
  ELSE <<SubSeq(x, 1, Head(sizes))>>
         \o tf_split(SubSeq(x, Head(sizes) + 1, Len(x)), Tail(sizes))

\* the value_range the configuration declares for the k-th training key
DeclaredRange(k) ==
  LET line == CHOOSE i \in DOMAIN config :
                config[i].name = active_training_keys[k]
  IN config[line].value_range

\* the one-hot vector of raw value x of the k-th training key: as long as
\* the declared range, 1 at the position of x
OneHotOfKey(k, x) ==
  [j \in DOMAIN DeclaredRange(k) |-> IF DeclaredRange(k)[j] = x THEN 1 ELSE 0]

\* the record (0-based index) a batch row was built from, told by its score
RecordOfScore(y) ==
  CHOOSE i \in 0..(Len(data_file) - 1) : 0 - data_file[i + 1].runtime = y

\* splitting each row by input_splits gives, for every i, the one-hot
\* vector of the i-th training key of the row's record
SplitsGiveFields(xs, ys) ==
  \A b \in DOMAIN xs :
    LET parts == tf_split(xs[b], get_input_splits(problem.dataset))
        rec == data_file[RecordOfScore(ys[b]) + 1]
    IN /\ Len(parts) = Len(active_training_keys)
       /\ \A k \in DOMAIN active_training_keys :
            parts[k] = OneHotOfKey(k, rec.param[k])

\* C27: whatever the order of the configuration's lines, the i-th entry of
\* get_input_splits is the segment length of the i-th training key, and
\* splitting any row of a batch by input_splits yields for each i exactly
\* the one-hot vector of the i-th training key.
C27_SplitsFollowKeyOrder ==
  (d_pc = "ready" /\ d_out.call \in SamplingCalls /\ ~IsExc(d_out.result)) =>
    /\ \A k \in DOMAIN active_training_keys :
         get_input_splits(problem.dataset)[k] = Len(DeclaredRange(k))
    /\ SplitsGiveFields(d_out.result.design, d_out.result.objective)
    /\ d_out.call = "get_mixed_batch" =>
         SplitsGiveFields(d_out.result.invalid_design,
                          d_out.result.invalid_objective)

\* get_mixed_batch has returned a batch of a problem whose configuration
\* declares the training keys in reverse order, with ranges of different
\* lengths
C27_Witness ==
  /\ d_pc = "ready"
  /\ d_out.call = "get_mixed_batch"
  /\ ~IsExc(d_out.result)
  /\ config[1].name = active_training_keys[NumKeys]
  /\ Len(config[1].value_range) # Len(config[Len(config)].value_range)
  /\ Len(d_out.result.design) = BatchSize

====
